---- MODULE Spec2Model ----
(***************************************************************************)
(* Anti-Entropy (AE) engine of the safe_network node.                      *)
(*                                                                         *)
(* The model follows sn_node/src/node/messaging/anti_entropy.rs:           *)
(*   check_for_entropy        - classify an inbound wire message           *)
(*   handle_anti_entropy_msg  - consume an AE Retry / Redirect / Update    *)
(* together with the send path of messaging/node_msgs.rs (into_msg_bytes)  *)
(* and the elder gate of messaging/mod.rs (apply_ae).                      *)
(*                                                                         *)
(* XorNames are 2-bit numbers, sections are the prefixes (0) and (1),      *)
(* BLS keys are small numbers: key 1 is the genesis key, key 0 stands for  *)
(* a key nobody knows (a freshly generated random key).                    *)
(***************************************************************************)
EXTENDS Integers, Sequences, FiniteSets, TLC

VARIABLES
    world,      \* the keys created so far: world[k] is the SAP signed in with key k
    kn,         \* kn[n]: the NetworkKnowledge of node n
    net,        \* wire messages in flight (node messages and AE messages)
    injected,   \* the original message has been sent
    lastCheck,  \* record of the last check_for_entropy call and its result
    lastAE,     \* record of the last handle_anti_entropy_msg call and its result
    comm,       \* comm[n]: the peers the comms layer of node n can reach
    disk,       \* disk[n]: the section tree node n has written to disk
    tasks,      \* tasks[t]: the state of AE handler task t
    lock,       \* lock[n]: the task that holds the write lock of node n, if any
    applied,    \* applied[n]: the updates written to the knowledge of node n
    lastGen,    \* record of the last generate_anti_entropy_cmds call
    queue,      \* the command jobs pending in the scheduler
    lastPop,    \* record of the last dequeue of the scheduler
    nextId,     \* the id of the next command job
    NEXT,       \* next_timer_token's static counter
    tokens,     \* the tokens handed out, in the order of the atomic increments
    timers,     \* timers[t]: the position of task t around its next_timer_token call
    lastSend,   \* record of the last send_msg call
    lastUpdate, \* record of the last call that sends AE Updates of its own accord
    lastCore,   \* record of the last call of the routing Core
    last_report,   \* BackPressure::last_report: the value last recorded, if any
    msgs_counted,  \* the messages counted by count_msg
    advertised,    \* the value tolerated_msgs_per_s last returned, if any
    lastRate,      \* record of the last tolerated_msgs_per_s call
    callers        \* callers[c]: the position of concurrent caller c in try_get_new_value

vars == <<world, kn, net, injected, lastCheck, lastAE, comm, disk,
          tasks, lock, applied, lastGen, queue, lastPop, nextId, NEXT, tokens,
          timers, lastSend,
          lastUpdate, lastCore, last_report, msgs_counted, advertised, lastRate,
          callers>>

\* the state of the concurrent AE handlers of a node
handlerVars == <<tasks, lock, applied>>

\* the state of the command scheduler
\* the state of the timer tokens
timerVars == <<NEXT, tokens, timers>>

schedVars == <<queue, lastPop, nextId, timerVars>>

\* the records of single calls of functions other than the AE ones
callVars == <<lastSend, lastUpdate, lastCore>>

\* the state of the backpressure controller and the record of its last call
bpVars == <<last_report, msgs_counted, advertised, lastRate, callers>>

(***************************************************************************)
(* Bounds                                                                  *)
(***************************************************************************)
\* number of section keys that are ever created; key rotation stops there
MaxKey == 4

(***************************************************************************)
(* XorName and Prefix                                                      *)
(***************************************************************************)
Names == 0 .. 3

Prefixes == {<<0>>, <<1>>}

\* the names that are nodes of the network
Nodes == 0 .. 2

\* i-th most significant bit of a name
Bit(name, i) == IF i = 1 THEN name \div 2 ELSE name % 2

\* Prefix::matches
matches(prefix, name) == \A i \in 1 .. Len(prefix) : prefix[i] = Bit(name, i)

\* number of leading bits a prefix shares with a name
common_prefix(prefix, name) ==
    IF Len(prefix) >= 1 /\ prefix[1] = Bit(name, 1) THEN 1 ELSE 0

\* bitwise exclusive or of two names
Xor(a, b) ==
    2 * (((a \div 2) + (b \div 2)) % 2) + (((a % 2) + (b % 2)) % 2)

\* XorName::cmp_distance(&self, lhs, rhs): Less if lhs is closer to self
cmp_distance(self, lhs, rhs) ==
    IF Xor(lhs, self) < Xor(rhs, self) THEN "Less"
    ELSE IF Xor(lhs, self) > Xor(rhs, self) THEN "Greater"
    ELSE "Equal"

\* XorName::from(PublicKey::Bls(key)): a hash of the key bytes
XorNameFromKey(key) == (3 * key + 1) % 4

(***************************************************************************)
(* Section keys, SAPs and the sections DAG                                  *)
(***************************************************************************)
Keys == 1 .. MaxKey

GenesisKey == 1

\* a key no node has in its DAG
UnknownKey == 0

NoSap == 0

\* keys created so far
WorldKeys == 1 .. Len(world)

RECURSIVE ChainTo(_)
\* the branch of the DAG from the genesis key to key
ChainTo(key) ==
    IF key = GenesisKey THEN <<GenesisKey>>
    ELSE Append(ChainTo(world[key].parent), key)

Range(s) == {s[i] : i \in 1 .. Len(s)}

\* the element of a one-element set; Only({e(x) : x \in {v}}) is e(v) with v
\* worked out once
Only(S) == CHOOSE x \in S : TRUE

Last(s) == s[Len(s)]

\* index of key in chain, 0 when absent
IndexOf(chain, key) ==
    IF key \in Range(chain) THEN CHOOSE i \in 1 .. Len(chain) : chain[i] = key
    ELSE 0

\* current key of a section in the world
CurrentKey(prefix) ==
    CHOOSE k \in WorldKeys :
        /\ world[k].prefix = prefix
        /\ \A j \in WorldKeys : world[j].prefix = prefix => j <= k

(***************************************************************************)
(* NetworkKnowledge                                                        *)
(***************************************************************************)
\* NetworkKnowledge::section_key
section_key(nk) == nk.tree[nk.prefix]

\* NetworkKnowledge::signed_sap: SAPs are identified by their section key
signed_sap(nk) == section_key(nk)

\* NetworkKnowledge::section_chain
section_chain(nk) == ChainTo(section_key(nk))

\* elders of the SAP with the given key
elders(sap) == world[sap].elders

is_elder(nk, name) == name \in elders(signed_sap(nk))

\* NetworkKnowledge::get_proof_chain_to_current_section
get_proof_chain_to_current_section(nk, key) ==
    LET chain == section_chain(nk)
        i == IndexOf(chain, key)
    IN IF i = 0 THEN [ok |-> FALSE, chain |-> <<>>]
       ELSE [ok |-> TRUE, chain |-> SubSeq(chain, i, Len(chain))]

\* NetworkKnowledge::closest_signed_sap_with_chain
closest_signed_sap_with_chain(nk, name) ==
    LET known == {p \in Prefixes : nk.tree[p] # NoSap}
        matching == {p \in known : matches(p, name)}
        best == IF matching # {}
                THEN CHOOSE p \in matching : \A q \in matching : Len(q) <= Len(p)
                ELSE CHOOSE p \in known :
                        \A q \in known : common_prefix(q, name) <= common_prefix(p, name)
    IN IF known = {} THEN [found |-> FALSE, signed_sap |-> NoSap, proof_chain |-> <<>>]
       ELSE [found |-> TRUE, signed_sap |-> nk.tree[best],
             proof_chain |-> ChainTo(nk.tree[best])]

\* NetworkKnowledge::generate_dst
generate_dst(nk, recipient) ==
    LET closest == closest_signed_sap_with_chain(nk, recipient)
    IN [name |-> recipient,
        section_key |-> IF closest.found THEN closest.signed_sap ELSE GenesisKey]

\* SectionTreeUpdate::new
SectionTreeUpdate(sap, chain) == [signed_sap |-> sap, proof_chain |-> chain]

\* the members argument of update_knowledge_if_valid: None, or a member set
\* with the key that signed it
NoMembers == [some |-> FALSE, signed_by |-> NoSap, names |-> {}]

SomeMembers(key, names) == [some |-> TRUE, signed_by |-> key, names |-> names]

\* NetworkKnowledge::members
members(nk) == nk.members

\* the proof chain is a branch of the DAG ending in the SAP's key and
\* starting from a key we hold
proof_chain_trusted(nk, update) ==
    LET chain == update.proof_chain
    IN /\ Len(chain) >= 1
       /\ Last(chain) = update.signed_sap
       /\ chain[1] \in nk.dag
       /\ \A i \in 1 .. Len(chain) - 1 : world[chain[i + 1]].parent = chain[i]

\* the member set is signed by the key of the incoming SAP, lies in the SAP's
\* prefix and holds every elder of the SAP
members_trusted(update, new_members) ==
    LET sap == update.signed_sap
    IN /\ new_members.signed_by = sap
       /\ elders(sap) \subseteq new_members.names
       /\ \A m \in new_members.names : matches(world[sap].prefix, m)

\* variant: a trusted SAP replaces the one held, whatever key is held
update_section_tree_last_wins(nk, update) ==
    LET sap == update.signed_sap
        prefix == world[sap].prefix
        held == nk.tree[prefix]
    IN IF ~proof_chain_trusted(nk, update)
       THEN [err |-> TRUE, updated |-> FALSE, nk |-> nk]
       ELSE IF held = sap
       THEN [err |-> FALSE, updated |-> FALSE, nk |-> nk]
       ELSE [err |-> FALSE, updated |-> TRUE,
             nk |-> [nk EXCEPT !.tree[prefix] = sap,
                               !.dag = nk.dag \cup Range(update.proof_chain)]]

\* variant: a SAP that is held already is reported as a change
update_section_tree_reports_again(nk, update) ==
    LET sap == update.signed_sap
        prefix == world[sap].prefix
        held == nk.tree[prefix]
    IN IF ~proof_chain_trusted(nk, update)
       THEN [err |-> TRUE, updated |-> FALSE, nk |-> nk]
       ELSE IF held = sap
       THEN [err |-> FALSE, updated |-> TRUE, nk |-> nk]
       ELSE IF held # NoSap /\ held \notin Range(update.proof_chain)
       THEN [err |-> TRUE, updated |-> FALSE, nk |-> nk]
       ELSE [err |-> FALSE, updated |-> TRUE,
             nk |-> [nk EXCEPT !.tree[prefix] = sap,
                               !.dag = nk.dag \cup Range(update.proof_chain)]]

\* the section tree part of update_knowledge_if_valid
update_section_tree(nk, update) ==
    LET sap == update.signed_sap
        prefix == world[sap].prefix
        held == nk.tree[prefix]
    IN IF ~proof_chain_trusted(nk, update)
       THEN [err |-> TRUE, updated |-> FALSE, nk |-> nk]
       ELSE IF held = sap
       THEN [err |-> FALSE, updated |-> FALSE, nk |-> nk]
       ELSE IF held # NoSap /\ held \notin Range(update.proof_chain)
       THEN [err |-> TRUE, updated |-> FALSE, nk |-> nk]
       ELSE [err |-> FALSE, updated |-> TRUE,
             nk |-> [nk EXCEPT !.tree[prefix] = sap,
                               !.dag = nk.dag \cup Range(update.proof_chain)]]

\* NetworkKnowledge::update_knowledge_if_valid: the section tree first, then
\* the members of our own section when a member set came with the update
update_knowledge_if_valid(nk, update, updated_members, our_name) ==
    LET tree_update == update_section_tree(nk, update)
        ours == matches(world[update.signed_sap].prefix, our_name)
    IN IF tree_update.err \/ ~updated_members.some \/ ~ours
       THEN tree_update
       ELSE IF ~members_trusted(update, updated_members)
       THEN [err |-> TRUE, updated |-> FALSE, nk |-> nk]
       ELSE IF updated_members.names = tree_update.nk.members
       THEN tree_update
       ELSE [err |-> FALSE, updated |-> TRUE,
             nk |-> [tree_update.nk EXCEPT !.members = updated_members.names]]

(***************************************************************************)
(* Wire messages                                                           *)
(***************************************************************************)
MsgKinds == {"Node", "NodeDataResponse"}

\* the message peers exchange: a probe stands for any system message that is
\* neither a join request nor an AE message
Payloads == {"probe"}

\* WireMsg::new_msg
WireMsg(msg_id, payload, kind, dst) ==
    [msg_id |-> msg_id, kind |-> kind, dst |-> dst, payload |-> payload]

\* WireMsg::serialize: header fields first, then the payload
serialize(wire_msg) ==
    <<wire_msg.msg_id, wire_msg.kind, wire_msg.dst.name,
      wire_msg.dst.section_key, wire_msg.payload>>

\* WireMsg::deserialize, yielding the MsgType with its kind, id, dst and msg
deserialize(bytes) ==
    [kind |-> bytes[2], msg_id |-> bytes[1],
     dst |-> [name |-> bytes[3], section_key |-> bytes[4]],
     msg |-> bytes[5]]

\* WireMsg::serialize_with_new_dst
serialize_with_new_dst(wire_msg, dst) ==
    serialize([wire_msg EXCEPT !.dst = dst])

(***************************************************************************)
(* check_for_entropy                                                       *)
(***************************************************************************)
NoEntropy == [tag |-> "None"]

NoMatchingSection == [tag |-> "Err", error |-> "NoMatchingSection"]

AeResponse(section_tree_update, kind) ==
    [tag |-> "Some", section_tree_update |-> section_tree_update, kind |-> kind]

\* variant: the chain runs from the genesis key to the key the sender named
generate_ae_section_tree_update_to_dst(nk, dst_section_key) ==
    LET chain == section_chain(nk)
        i == IndexOf(chain, dst_section_key)
        proof_chain == IF i # 0 THEN SubSeq(chain, 1, i) ELSE chain
    IN SectionTreeUpdate(signed_sap(nk), proof_chain)

\* variant: for a key that is not in our chain the proof chain is our current key alone
generate_ae_section_tree_update_leaf_only(nk, dst_section_key) ==
    LET to_current == get_proof_chain_to_current_section(nk, dst_section_key)
        proof_chain == IF to_current.ok THEN to_current.chain
                       ELSE <<section_key(nk)>>
    IN SectionTreeUpdate(signed_sap(nk), proof_chain)

\* the free function generate_ae_section_tree_update
generate_ae_section_tree_update(nk, dst_section_key) ==
    LET to_current == get_proof_chain_to_current_section(nk, dst_section_key)
        proof_chain == IF to_current.ok THEN to_current.chain
                       ELSE section_chain(nk)
    IN SectionTreeUpdate(signed_sap(nk), proof_chain)

\* variant: the key check compares with the first key of our chain
check_for_entropy_genesis(wire_msg, nk) ==
    LET dst == wire_msg.dst
        closest_sap == closest_signed_sap_with_chain(nk, dst.name)
    IN IF ~matches(nk.prefix, dst.name)
       THEN IF closest_sap.found
            THEN AeResponse(
                    SectionTreeUpdate(closest_sap.signed_sap, closest_sap.proof_chain),
                    [ae |-> "Redirect", bounced_msg |-> serialize(wire_msg)])
            ELSE NoMatchingSection
       ELSE IF dst.section_key = section_chain(nk)[1]
       THEN NoEntropy
       ELSE AeResponse(
                generate_ae_section_tree_update(nk, dst.section_key),
                [ae |-> "Retry", bounced_msg |-> serialize(wire_msg)])

\* variant: the key check comes before the prefix check
check_for_entropy_key_first(wire_msg, nk) ==
    LET dst == wire_msg.dst
        closest_sap == closest_signed_sap_with_chain(nk, dst.name)
    IN IF dst.section_key = section_key(nk)
       THEN NoEntropy
       ELSE IF ~matches(nk.prefix, dst.name)
       THEN IF closest_sap.found
            THEN AeResponse(
                    SectionTreeUpdate(closest_sap.signed_sap, closest_sap.proof_chain),
                    [ae |-> "Redirect", bounced_msg |-> serialize(wire_msg)])
            ELSE NoMatchingSection
       ELSE AeResponse(
                generate_ae_section_tree_update(nk, dst.section_key),
                [ae |-> "Retry", bounced_msg |-> serialize(wire_msg)])

\* variant: a redirect advertises our own SAP
check_for_entropy_redirect_own(wire_msg, nk) ==
    LET dst == wire_msg.dst
        closest_sap == closest_signed_sap_with_chain(nk, dst.name)
    IN IF ~matches(nk.prefix, dst.name)
       THEN IF closest_sap.found
            THEN AeResponse(
                    SectionTreeUpdate(signed_sap(nk), section_chain(nk)),
                    [ae |-> "Redirect", bounced_msg |-> serialize(wire_msg)])
            ELSE NoMatchingSection
       ELSE IF dst.section_key = section_key(nk)
       THEN NoEntropy
       ELSE AeResponse(
                generate_ae_section_tree_update(nk, dst.section_key),
                [ae |-> "Retry", bounced_msg |-> serialize(wire_msg)])

\* variant: a message outside our prefix is dropped, never redirected
check_for_entropy_no_redirect(wire_msg, nk) ==
    LET dst == wire_msg.dst
    IN IF ~matches(nk.prefix, dst.name)
       THEN NoMatchingSection
       ELSE IF dst.section_key = section_key(nk)
       THEN NoEntropy
       ELSE AeResponse(
                generate_ae_section_tree_update(nk, dst.section_key),
                [ae |-> "Retry", bounced_msg |-> serialize(wire_msg)])

\* variant: a redirect needs a SAP whose prefix matches the dst name
check_for_entropy_exact_match(wire_msg, nk) ==
    LET dst == wire_msg.dst
        closest_sap == closest_signed_sap_with_chain(nk, dst.name)
    IN IF ~matches(nk.prefix, dst.name)
       THEN IF closest_sap.found /\ matches(world[closest_sap.signed_sap].prefix, dst.name)
            THEN AeResponse(
                    SectionTreeUpdate(closest_sap.signed_sap, closest_sap.proof_chain),
                    [ae |-> "Redirect", bounced_msg |-> serialize(wire_msg)])
            ELSE NoMatchingSection
       ELSE IF dst.section_key = section_key(nk)
       THEN NoEntropy
       ELSE AeResponse(
                generate_ae_section_tree_update(nk, dst.section_key),
                [ae |-> "Retry", bounced_msg |-> serialize(wire_msg)])

\* variant: the bytes bounced by a Retry carry our current section key as dst key
check_for_entropy_bounces_current_key(wire_msg, nk) ==
    LET dst == wire_msg.dst
        our_prefix == nk.prefix
        closest_sap == closest_signed_sap_with_chain(nk, dst.name)
        our_section_key == section_key(nk)
    IN IF ~matches(our_prefix, dst.name)
       THEN IF closest_sap.found
            THEN AeResponse(
                    SectionTreeUpdate(closest_sap.signed_sap, closest_sap.proof_chain),
                    [ae |-> "Redirect", bounced_msg |-> serialize(wire_msg)])
            ELSE NoMatchingSection
       ELSE IF dst.section_key = our_section_key
       THEN NoEntropy
       ELSE AeResponse(
                generate_ae_section_tree_update(nk, dst.section_key),
                [ae |-> "Retry",
                 bounced_msg |-> serialize_with_new_dst(
                     wire_msg, [name |-> dst.name, section_key |-> our_section_key])])

\* MyNode::check_for_entropy
check_for_entropy(wire_msg, nk) ==
    LET dst == wire_msg.dst
        our_prefix == nk.prefix
        closest_sap == closest_signed_sap_with_chain(nk, dst.name)
        our_section_key == section_key(nk)
    IN IF ~matches(our_prefix, dst.name)
       THEN IF closest_sap.found
            THEN AeResponse(
                    SectionTreeUpdate(closest_sap.signed_sap, closest_sap.proof_chain),
                    [ae |-> "Redirect", bounced_msg |-> serialize(wire_msg)])
            ELSE NoMatchingSection
       ELSE IF dst.section_key = our_section_key
       THEN NoEntropy
       ELSE AeResponse(
                generate_ae_section_tree_update(nk, dst.section_key),
                [ae |-> "Retry", bounced_msg |-> serialize(wire_msg)])

(***************************************************************************)
(* handle_anti_entropy_msg                                                 *)
(***************************************************************************)
\* Cmd::send_msg
SendMsgCmd(msg, msg_id, recipients, context) ==
    [cmd |-> "SendMsg", msg |-> msg, msg_id |-> msg_id,
     recipients |-> recipients, context |-> context]

\* the command returned by ask_for_any_new_data_from_whole_section
AskForDataCmd == [cmd |-> "AskForAnyNewData"]

\* the elder picked by sap.elders().max_by(|lhs, rhs| target_name.cmp_distance(lhs, rhs))
max_by_cmp_distance(target_name, candidates) ==
    CHOOSE e \in candidates :
        \A o \in candidates : cmp_distance(target_name, o, e) # "Greater"

\* the members an AE Update carries; a Retry or a Redirect carries none
members_of(kind) == IF kind.ae = "Update" THEN kind.members ELSE NoMembers

\* a call of set_comm_targets or write_section_tree with its argument, or no call
Called(value) == [called |-> TRUE, value |-> value]

NotCalled == [called |-> FALSE, value |-> {}]

\* no call of write_section_tree and no call of untrack_node_issue
TreeNotWritten == [called |-> FALSE, value |-> [p \in Prefixes |-> NoSap]]

NotUntracked == [called |-> FALSE, value |-> [name |-> 0, issue |-> ""]]

\* variant: the result of the first application drives what follows
apply_update_first_result(nk, starting_context, our_name, section_tree_update, kind) ==
    LET should_update ==
            update_knowledge_if_valid(starting_context, section_tree_update,
                                      members_of(kind), our_name)
        written == IF should_update.updated
                   THEN update_knowledge_if_valid(nk, section_tree_update,
                                                  members_of(kind), our_name)
                   ELSE [err |-> FALSE, updated |-> FALSE, nk |-> nk]
    IN [err |-> should_update.err \/ written.err,
        should_update |-> should_update.updated,
        updated |-> should_update.updated,
        nk |-> written.nk]

\* variant: the application under the lock never reports a change
apply_update_reports_none(nk, starting_context, our_name, section_tree_update, kind) ==
    LET should_update ==
            update_knowledge_if_valid(starting_context, section_tree_update,
                                      members_of(kind), our_name)
        written == IF should_update.updated
                   THEN update_knowledge_if_valid(nk, section_tree_update,
                                                  members_of(kind), our_name)
                   ELSE [err |-> FALSE, updated |-> FALSE, nk |-> nk]
    IN [err |-> should_update.err \/ written.err,
        should_update |-> should_update.updated,
        updated |-> FALSE,
        nk |-> written.nk]

\* the block that yields `updated`: the update is tried on the starting
\* context; only if that reports a change is the write lock taken and the
\* update applied again, to the knowledge nk found under the lock
apply_update(nk, starting_context, our_name, section_tree_update, kind) ==
    LET should_update ==
            update_knowledge_if_valid(starting_context, section_tree_update,
                                      members_of(kind), our_name)
        written == IF should_update.updated
                   THEN update_knowledge_if_valid(nk, section_tree_update,
                                                  members_of(kind), our_name)
                   ELSE [err |-> FALSE, updated |-> FALSE, nk |-> nk]
    IN [err |-> should_update.err \/ written.err,
        should_update |-> should_update.updated,
        updated |-> written.updated,
        nk |-> written.nk]

\* variant: no loop guard
after_update_no_guard(latest_context, starting_context, our_name, updated, section_tree_update, kind, sender) ==
    LET sap == section_tree_update.signed_sap
        comm_targets == IF updated THEN Called(members(latest_context)) ELSE NotCalled
        cmds == IF updated THEN <<AskForDataCmd>> ELSE <<>>
        section_tree == IF updated THEN Called(latest_context.tree) ELSE TreeNotWritten
        removed == /\ updated
                   /\ our_name \in members(starting_context)
                   /\ our_name \notin members(latest_context)
        target_name == XorNameFromKey(sap)
        response_peer ==
            IF kind.ae = "Retry" THEN sender
            ELSE max_by_cmp_distance(target_name, elders(sap))
        bounced == deserialize(kind.bounced_msg)
        Outcome(err, c, resent, untracked) ==
            [err |-> err, updated |-> updated, cmds |-> c, resent |-> resent,
             untracked |-> IF untracked
                           THEN Called([name |-> sender, issue |-> "AeProbeMsg"])
                           ELSE NotUntracked,
             comm_targets |-> comm_targets, section_tree |-> section_tree]
    IN IF removed
       THEN Outcome("RejoinRequired", <<>>, FALSE, FALSE)
       ELSE IF kind.ae = "Update"
       THEN Outcome("", cmds, FALSE, TRUE)
       ELSE IF kind.ae = "Redirect" /\ elders(sap) = {}
       THEN Outcome("", cmds, FALSE, FALSE)
       ELSE IF bounced.kind # "Node"
       THEN Outcome("", cmds, FALSE, FALSE)
       ELSE Outcome("",
               Append(cmds, SendMsgCmd(bounced.msg, bounced.msg_id,
                                       {response_peer}, latest_context)),
               TRUE, FALSE)

\* variant: a Retry is re-sent to an elder of the advertised SAP
after_update_retry_to_elder(latest_context, starting_context, our_name, updated, section_tree_update, kind, sender) ==
    LET sap == section_tree_update.signed_sap
        comm_targets == IF updated THEN Called(members(latest_context)) ELSE NotCalled
        cmds == IF updated THEN <<AskForDataCmd>> ELSE <<>>
        section_tree == IF updated THEN Called(latest_context.tree) ELSE TreeNotWritten
        removed == /\ updated
                   /\ our_name \in members(starting_context)
                   /\ our_name \notin members(latest_context)
        target_name == XorNameFromKey(sap)
        response_peer ==
            max_by_cmp_distance(target_name, elders(sap))
        bounced == deserialize(kind.bounced_msg)
        Outcome(err, c, resent, untracked) ==
            [err |-> err, updated |-> updated, cmds |-> c, resent |-> resent,
             untracked |-> IF untracked
                           THEN Called([name |-> sender, issue |-> "AeProbeMsg"])
                           ELSE NotUntracked,
             comm_targets |-> comm_targets, section_tree |-> section_tree]
    IN IF removed
       THEN Outcome("RejoinRequired", <<>>, FALSE, FALSE)
       ELSE IF kind.ae = "Update"
       THEN Outcome("", cmds, FALSE, TRUE)
       ELSE IF kind.ae = "Redirect" /\ elders(sap) = {}
       THEN Outcome("", cmds, FALSE, FALSE)
       ELSE IF bounced.kind # "Node"
       THEN Outcome("", cmds, FALSE, FALSE)
       ELSE IF bounced.dst.section_key = sap
       THEN Outcome("", cmds, FALSE, FALSE)
       ELSE Outcome("",
               Append(cmds, SendMsgCmd(bounced.msg, bounced.msg_id,
                                       {response_peer}, latest_context)),
               TRUE, FALSE)

\* variant: an Update is answered with a message to its sender
after_update_answers_update(latest_context, starting_context, our_name, updated, section_tree_update, kind, sender) ==
    LET sap == section_tree_update.signed_sap
        comm_targets == IF updated THEN Called(members(latest_context)) ELSE NotCalled
        cmds == IF updated THEN <<AskForDataCmd>> ELSE <<>>
        section_tree == IF updated THEN Called(latest_context.tree) ELSE TreeNotWritten
        removed == /\ updated
                   /\ our_name \in members(starting_context)
                   /\ our_name \notin members(latest_context)
        target_name == XorNameFromKey(sap)
        response_peer ==
            IF kind.ae = "Retry" THEN sender
            ELSE max_by_cmp_distance(target_name, elders(sap))
        bounced == deserialize(kind.bounced_msg)
        Outcome(err, c, resent, untracked) ==
            [err |-> err, updated |-> updated, cmds |-> c, resent |-> resent,
             untracked |-> IF untracked
                           THEN Called([name |-> sender, issue |-> "AeProbeMsg"])
                           ELSE NotUntracked,
             comm_targets |-> comm_targets, section_tree |-> section_tree]
    IN IF removed
       THEN Outcome("RejoinRequired", <<>>, FALSE, FALSE)
       ELSE IF kind.ae = "Update"
       THEN Outcome("",
               Append(cmds, SendMsgCmd("probe", 1, {sender}, latest_context)),
               TRUE, FALSE)
       ELSE IF kind.ae = "Redirect" /\ elders(sap) = {}
       THEN Outcome("", cmds, FALSE, FALSE)
       ELSE IF bounced.kind # "Node"
       THEN Outcome("", cmds, FALSE, FALSE)
       ELSE IF bounced.dst.section_key = sap
       THEN Outcome("", cmds, FALSE, FALSE)
       ELSE Outcome("",
               Append(cmds, SendMsgCmd(bounced.msg, bounced.msg_id,
                                       {response_peer}, latest_context)),
               TRUE, FALSE)

\* variant: a node removed from its section carries on
after_update_no_rejoin(latest_context, starting_context, our_name, updated, section_tree_update, kind, sender) ==
    LET sap == section_tree_update.signed_sap
        comm_targets == IF updated THEN Called(members(latest_context)) ELSE NotCalled
        cmds == IF updated THEN <<AskForDataCmd>> ELSE <<>>
        section_tree == IF updated THEN Called(latest_context.tree) ELSE TreeNotWritten
        removed == FALSE
        target_name == XorNameFromKey(sap)
        response_peer ==
            IF kind.ae = "Retry" THEN sender
            ELSE max_by_cmp_distance(target_name, elders(sap))
        bounced == deserialize(kind.bounced_msg)
        Outcome(err, c, resent, untracked) ==
            [err |-> err, updated |-> updated, cmds |-> c, resent |-> resent,
             untracked |-> IF untracked
                           THEN Called([name |-> sender, issue |-> "AeProbeMsg"])
                           ELSE NotUntracked,
             comm_targets |-> comm_targets, section_tree |-> section_tree]
    IN IF removed
       THEN Outcome("RejoinRequired", <<>>, FALSE, FALSE)
       ELSE IF kind.ae = "Update"
       THEN Outcome("", cmds, FALSE, TRUE)
       ELSE IF kind.ae = "Redirect" /\ elders(sap) = {}
       THEN Outcome("", cmds, FALSE, FALSE)
       ELSE IF bounced.kind # "Node"
       THEN Outcome("", cmds, FALSE, FALSE)
       ELSE IF bounced.dst.section_key = sap
       THEN Outcome("", cmds, FALSE, FALSE)
       ELSE Outcome("",
               Append(cmds, SendMsgCmd(bounced.msg, bounced.msg_id,
                                       {response_peer}, latest_context)),
               TRUE, FALSE)

\* variant: the section tree is never written to disk
after_update_no_persist(latest_context, starting_context, our_name, updated, section_tree_update, kind, sender) ==
    LET sap == section_tree_update.signed_sap
        comm_targets == IF updated THEN Called(members(latest_context)) ELSE NotCalled
        cmds == IF updated THEN <<AskForDataCmd>> ELSE <<>>
        section_tree == TreeNotWritten
        removed == /\ updated
                   /\ our_name \in members(starting_context)
                   /\ our_name \notin members(latest_context)
        target_name == XorNameFromKey(sap)
        response_peer ==
            IF kind.ae = "Retry" THEN sender
            ELSE max_by_cmp_distance(target_name, elders(sap))
        bounced == deserialize(kind.bounced_msg)
        Outcome(err, c, resent, untracked) ==
            [err |-> err, updated |-> updated, cmds |-> c, resent |-> resent,
             untracked |-> IF untracked
                           THEN Called([name |-> sender, issue |-> "AeProbeMsg"])
                           ELSE NotUntracked,
             comm_targets |-> comm_targets, section_tree |-> section_tree]
    IN IF removed
       THEN Outcome("RejoinRequired", <<>>, FALSE, FALSE)
       ELSE IF kind.ae = "Update"
       THEN Outcome("", cmds, FALSE, TRUE)
       ELSE IF kind.ae = "Redirect" /\ elders(sap) = {}
       THEN Outcome("", cmds, FALSE, FALSE)
       ELSE IF bounced.kind # "Node"
       THEN Outcome("", cmds, FALSE, FALSE)
       ELSE IF bounced.dst.section_key = sap
       THEN Outcome("", cmds, FALSE, FALSE)
       ELSE Outcome("",
               Append(cmds, SendMsgCmd(bounced.msg, bounced.msg_id,
                                       {response_peer}, latest_context)),
               TRUE, FALSE)

\* what handle_anti_entropy_msg does once `updated` is known, with the context
\* read after the lock was released: comm targets, request for data, section
\* tree written to disk, the removal check, then the re-send of the bounced
\* message
after_update(latest_context, starting_context, our_name, updated, section_tree_update, kind, sender) ==
    LET sap == section_tree_update.signed_sap
        comm_targets == IF updated THEN Called(members(latest_context)) ELSE NotCalled
        cmds == IF updated THEN <<AskForDataCmd>> ELSE <<>>
        section_tree == IF updated THEN Called(latest_context.tree) ELSE TreeNotWritten
        removed == /\ updated
                   /\ our_name \in members(starting_context)
                   /\ our_name \notin members(latest_context)
        target_name == XorNameFromKey(sap)
        response_peer ==
            IF kind.ae = "Retry" THEN sender
            ELSE max_by_cmp_distance(target_name, elders(sap))
        bounced == deserialize(kind.bounced_msg)
        Outcome(err, c, resent, untracked) ==
            [err |-> err, updated |-> updated, cmds |-> c, resent |-> resent,
             untracked |-> IF untracked
                           THEN Called([name |-> sender, issue |-> "AeProbeMsg"])
                           ELSE NotUntracked,
             comm_targets |-> comm_targets, section_tree |-> section_tree]
    IN IF removed
       THEN Outcome("RejoinRequired", <<>>, FALSE, FALSE)
       ELSE IF kind.ae = "Update"
       THEN Outcome("", cmds, FALSE, TRUE)
       ELSE IF kind.ae = "Redirect" /\ elders(sap) = {}
       THEN Outcome("", cmds, FALSE, FALSE)
       ELSE IF bounced.kind # "Node"
       THEN Outcome("", cmds, FALSE, FALSE)
       ELSE IF bounced.dst.section_key = sap
       THEN Outcome("", cmds, FALSE, FALSE)
       ELSE Outcome("",
               Append(cmds, SendMsgCmd(bounced.msg, bounced.msg_id,
                                       {response_peer}, latest_context)),
               TRUE, FALSE)

\* the outcome of a handler that failed in update_knowledge_if_valid
UntrustedUpdate(nk) ==
    [err |-> "UntrustedUpdate", nk |-> nk, updated |-> FALSE, cmds |-> <<>>,
     resent |-> FALSE, untracked |-> NotUntracked, comm_targets |-> NotCalled,
     section_tree |-> TreeNotWritten]

\* MyNode::handle_anti_entropy_msg run without interleaving: the outcome for
\* a node whose context at the start is starting_context and whose knowledge
\* under the lock is nk
handle_anti_entropy_msg(nk, starting_context, our_name, section_tree_update, kind, sender) ==
    Only({IF update.err
          THEN UntrustedUpdate(nk)
          ELSE [nk |-> update.nk] @@
               after_update(update.nk, starting_context, our_name, update.updated,
                            section_tree_update, kind, sender) :
          update \in {apply_update(nk, starting_context, our_name,
                                   section_tree_update, kind)}})

(***************************************************************************)
(* Sending                                                                 *)
(***************************************************************************)
\* variant: the dst set at construction is never replaced
into_msg_bytes_initial_dst(nk, kind, msg, msg_id, recipients) ==
    LET initial_wire_msg ==
            WireMsg(msg_id, msg, kind, [name |-> 0, section_key |-> UnknownKey])
    IN {<<peer, serialize_with_new_dst(initial_wire_msg,
                    [name |-> peer, section_key |-> UnknownKey])>> :
            peer \in recipients}

\* into_msg_bytes: one serialised wire message per recipient, each with the
\* dst generated from the network knowledge of the context
into_msg_bytes(nk, kind, msg, msg_id, recipients) ==
    LET initial_wire_msg ==
            WireMsg(msg_id, msg, kind, [name |-> 0, section_key |-> UnknownKey])
    IN {<<peer, serialize_with_new_dst(initial_wire_msg, generate_dst(nk, peer))>> :
            peer \in recipients}

\* what the comms layer puts on the wire for a SendMsg command
Sent(sender, cmd, resend) ==
    {[type |-> "wire", sender |-> sender, to |-> pm[1], bytes |-> pm[2],
      resend |-> resend] :
        pm \in into_msg_bytes(cmd.context, "Node", cmd.msg, cmd.msg_id, cmd.recipients)}

\* the SendMsg commands of a command list
SendMsgs(cmds) == {cmds[i] : i \in {j \in 1 .. Len(cmds) : cmds[j].cmd = "SendMsg"}}

(***************************************************************************)
(* The network: initial state and actions                                  *)
(***************************************************************************)
\* the section a name belongs to
PrefixOf(name) == <<Bit(name, 1)>>

\* Prefix::sibling: the prefix with its last bit flipped; the empty prefix is
\* its own sibling
sibling(prefix) ==
    IF Len(prefix) = 0 THEN prefix
    ELSE [prefix EXCEPT ![Len(prefix)] = 1 - @]

\* the world at start: the genesis key and the first SAP of each section
InitWorld ==
    <<[prefix |-> <<>>, parent |-> 0, elders |-> {}],
      [prefix |-> <<0>>, parent |-> GenesisKey, elders |-> {0, 1}],
      [prefix |-> <<1>>, parent |-> GenesisKey, elders |-> {2}]>>

InitKey(prefix) == IF prefix = <<0>> THEN 2 ELSE 3

\* knowledge of a node of section prefix that knows, or not, the sibling section
InitKnowledge(prefix, knows_sibling) ==
    [prefix |-> prefix,
     members |-> {n \in Nodes : matches(prefix, n)},
     tree |-> [p \in Prefixes |->
                 IF p = prefix \/ knows_sibling THEN InitKey(p) ELSE NoSap],
     dag |-> {GenesisKey, InitKey(prefix)}
             \cup (IF knows_sibling THEN {InitKey(sibling(prefix))} ELSE {})]

NoCheck ==
    [valid |-> FALSE, node |-> 0, sender |-> 0, resend |-> FALSE,
     wire_msg |-> WireMsg(0, "probe", "Node", [name |-> 0, section_key |-> UnknownKey]),
     nk |-> InitKnowledge(<<0>>, FALSE),
     facts |-> [deserialises |-> TRUE, trusted |-> TRUE,
                dst_address |-> [some |-> FALSE, name |-> 0],
                too_many_queries |-> FALSE],
     checked |-> FALSE, result |-> NoEntropy,
     ae_cmds |-> [err |-> "", cmds |-> <<>>],
     out |-> [err |-> "", cmds |-> <<>>]]

NoAE ==
    [valid |-> FALSE, node |-> 0, sender |-> 0,
     wire_msg |-> WireMsg(0, "AntiEntropy", "Node",
                          [name |-> 0, section_key |-> UnknownKey]),
     validated |-> [err |-> "", cmds |-> <<>>], handled |-> FALSE,
     section_tree_update |-> SectionTreeUpdate(NoSap, <<>>),
     kind |-> [ae |-> "Update", members |-> NoMembers],
     before |-> InitKnowledge(<<0>>, FALSE),
     out |-> [err |-> "", nk |-> InitKnowledge(<<0>>, FALSE), updated |-> FALSE,
              cmds |-> <<>>, resent |-> FALSE, untracked |-> NotUntracked,
              comm_targets |-> NotCalled, section_tree |-> TreeNotWritten],
     sent |-> {}]

\* the lock of a node that nobody holds for writing
NoWriter == 0

\* the AE handler tasks of a node that run concurrently
Handlers == {1, 2}

\* a handler task that has not been started
IdleTask ==
    [pc |-> "idle", node |-> 0, sender |-> 0,
     section_tree_update |-> SectionTreeUpdate(NoSap, <<>>),
     kind |-> [ae |-> "Update", members |-> NoMembers],
     starting_context |-> InitKnowledge(<<0>>, FALSE),
     should_update |-> FALSE, locked |-> FALSE,
     found |-> InitKnowledge(<<0>>, FALSE),
     written |-> [err |-> FALSE, should_update |-> FALSE, updated |-> FALSE,
                  nk |-> InitKnowledge(<<0>>, FALSE)],
     updated |-> FALSE,
     latest_context |-> InitKnowledge(<<0>>, FALSE),
     out |-> NoAE.out,
     comm_set |-> NotCalled, tree_written |-> TreeNotWritten,
     touched |-> FALSE]

\* nothing has been written to the knowledge nk yet
NothingApplied(nk) == [from |-> nk, updates |-> <<>>]

\* Option<SendStream>: the response stream of the inbound message, if any
NoStream == [some |-> FALSE]

SomeStream == [some |-> TRUE]

NoGen ==
    [valid |-> FALSE, context |-> InitKnowledge(<<0>>, FALSE), origin |-> 0,
     wire_msg |-> WireMsg(0, "probe", "Node", [name |-> 0, section_key |-> UnknownKey]),
     section_tree_update |-> SectionTreeUpdate(NoSap, <<>>),
     kind |-> [ae |-> "Retry", bounced_msg |-> <<>>],
     send_stream |-> NoStream,
     out |-> [err |-> "", cmds |-> <<>>]]

NoPop == [valid |-> FALSE, pending |-> <<>>]

NoSend == [valid |-> FALSE]

NoUpdate == [valid |-> FALSE]

NoCore == [valid |-> FALSE]

\* the tasks that ask for timer tokens
TimerTasks == {1, 2}

IdleTimer == [pc |-> "idle", token |-> 0]

\* Option<f64> / Option<OutgoingReport>: None
NoValue == [some |-> FALSE]

NoRate == [valid |-> FALSE]

\* the tasks that call tolerated_msgs_per_s on clones of one BackPressure
Callers == {1, 2}

IdleCaller ==
    [pc |-> "idle", candidate |-> [nan |-> FALSE, n |-> 0, d |-> 1],
     record_changes |-> FALSE,
     prev |-> NoValue, out |-> NoValue, with |-> {}]

\* the handlers, the AE command generator and the scheduler at rest
AtRest ==
    /\ tasks = [t \in Handlers |-> IdleTask]
    /\ lock = [n \in Nodes |-> NoWriter]
    /\ applied = [n \in Nodes |-> NothingApplied(kn[n])]
    /\ lastGen = NoGen
    /\ queue = <<>>
    /\ lastPop = NoPop
    /\ nextId = 0
    /\ NEXT = 0
    /\ tokens = <<>>
    /\ timers = [t \in TimerTasks |-> IdleTimer]
    /\ lastSend = NoSend
    /\ lastUpdate = NoUpdate
    /\ lastCore = NoCore
    /\ last_report = NoValue
    /\ msgs_counted = 0
    /\ advertised = NoValue
    /\ lastRate = NoRate
    /\ callers = [c \in Callers |-> IdleCaller]

Init ==
    /\ world = InitWorld
    /\ kn \in {f \in [Nodes -> {InitKnowledge(p, b) : p \in Prefixes, b \in BOOLEAN}] :
                \A n \in Nodes : f[n].prefix = PrefixOf(n)}
    /\ net = {}
    /\ injected = FALSE
    /\ lastCheck = NoCheck
    /\ lastAE = NoAE
    /\ comm = [n \in Nodes |-> members(kn[n])]
    /\ disk = [n \in Nodes |-> kn[n].tree]
    /\ AtRest

\* A section rotates its key: the elders of the new SAP, who took part in its
\* creation, hold it at once; every other node still holds what it held.
\* Rotations that come after the original message has left the network are
\* not followed.
Rotate(prefix, new_elders) ==
    LET parent == CurrentKey(prefix)
        key == Len(world) + 1
    IN /\ Len(world) < MaxKey
       /\ ~injected \/ net # {}
       /\ new_elders # {}
       /\ \A n \in new_elders : matches(prefix, n) /\ kn[n].tree[prefix] = parent
       /\ world' = Append(world, [prefix |-> prefix, parent |-> parent,
                                  elders |-> new_elders])
       /\ kn' = [n \in Nodes |->
                    IF n \in new_elders
                    THEN [kn[n] EXCEPT !.tree[prefix] = key, !.dag = kn[n].dag \cup {key}]
                    ELSE kn[n]]
       /\ UNCHANGED <<net, injected, lastCheck, lastAE, comm, disk,
                    handlerVars, lastGen, schedVars, callVars, bpVars>>

\* A peer sends the original message: a node message with any dst name and
\* any dst key, or a data response addressed to the name of its recipient
Inject(sender, to, kind, payload, dst) ==
    /\ ~injected
    /\ sender # to
    /\ kind = "NodeDataResponse" => (dst.name = to /\ payload = "probe")
    /\ injected' = TRUE
    /\ net' = net \cup {[type |-> "wire", sender |-> sender, to |-> to,
                         bytes |-> serialize(WireMsg(1, payload, kind, dst)),
                         resend |-> FALSE]}
    /\ UNCHANGED <<world, kn, lastCheck, lastAE, comm, disk,
                 handlerVars, lastGen, schedVars, callVars, bpVars>>

\* WireMsg::from: the wire message of the bytes received
from_bytes(bytes) ==
    WireMsg(bytes[1], bytes[5], bytes[2],
            [name |-> bytes[3], section_key |-> bytes[4]])

\* the system messages that apply_ae lets through without an entropy check
SkipsEntropyCheck == {"AntiEntropy", "JoinRequest", "JoinAsRelocatedRequest"}

\* NodeMsg::AntiEntropy
AntiEntropyMsg(section_tree_update, kind) ==
    [payload |-> "AntiEntropy", section_tree_update |-> section_tree_update,
     kind |-> kind]

TrackNodeIssueCmd(name, issue) ==
    [cmd |-> "TrackNodeIssue", name |-> name, issue |-> issue]

HandleValidMsgCmd(cmd, origin, msg_id, msg) ==
    [cmd |-> cmd, origin |-> origin, msg_id |-> msg_id, msg |-> msg]

Ok(cmds) == [err |-> "", cmds |-> cmds]

Err(error) == [err |-> error, cmds |-> <<>>]

\* the dst the entropy check is made for: that of a system message, or the
\* data address of a service message with the section key of its dst
checked_msg(wire_msg, dst_section_key, dst_name) ==
    [wire_msg EXCEPT !.dst = [name |-> dst_name, section_key |-> dst_section_key]]

\* the command the entropy check hands to its caller: the AE message for the
\* origin, with the bytes of the inbound message, when there is entropy
entropy_cmd(nk, wire_msg, dst_section_key, dst_name, origin) ==
    Only({IF found.tag = "Err" THEN Err(found.error)
          ELSE IF found.tag = "None" THEN Ok(<<>>)
          ELSE Ok(<<SendMsgCmd(
                       AntiEntropyMsg(found.section_tree_update,
                                      [found.kind EXCEPT
                                          !.bounced_msg = serialize(wire_msg)]),
                       wire_msg.msg_id, {origin}, nk)>>) :
          found \in {check_for_entropy(
                        checked_msg(wire_msg, dst_section_key, dst_name), nk)}})

\* variant: AE messages are checked for entropy like any other message
apply_ae_checks_ae(nk, our_name, origin, msg, wire_msg) ==
    IF ~is_elder(nk, our_name) THEN Ok(<<>>)
    ELSE IF msg \in SkipsEntropyCheck \ {"AntiEntropy"} THEN Ok(<<>>)
    ELSE Only({IF ae_cmd.err # "" THEN ae_cmd
               ELSE IF ae_cmd.cmds # <<>>
               THEN Ok(<<TrackNodeIssueCmd(origin, "Knowledge")>> \o ae_cmd.cmds)
               ELSE Ok(<<>>) :
               ae_cmd \in {entropy_cmd(nk, wire_msg, wire_msg.dst.section_key,
                                       wire_msg.dst.name, origin)}})

\* variant: adults check for entropy as elders do
apply_ae_adults_check(nk, our_name, origin, msg, wire_msg) ==
    IF msg \in SkipsEntropyCheck THEN Ok(<<>>)
    ELSE Only({IF ae_cmd.err # "" THEN ae_cmd
               ELSE IF ae_cmd.cmds # <<>>
               THEN Ok(<<TrackNodeIssueCmd(origin, "Knowledge")>> \o ae_cmd.cmds)
               ELSE Ok(<<>>) :
               ae_cmd \in {entropy_cmd(nk, wire_msg, wire_msg.dst.section_key,
                                       wire_msg.dst.name, origin)}})

\* apply_ae: adults do not check for entropy, elders do, except on AE
\* messages and join requests
apply_ae(nk, our_name, origin, msg, wire_msg) ==
    IF ~is_elder(nk, our_name) THEN Ok(<<>>)
    ELSE IF msg \in SkipsEntropyCheck THEN Ok(<<>>)
    ELSE Only({IF ae_cmd.err # "" THEN ae_cmd
               ELSE IF ae_cmd.cmds # <<>>
               THEN Ok(<<TrackNodeIssueCmd(origin, "Knowledge")>> \o ae_cmd.cmds)
               ELSE Ok(<<>>) :
               ae_cmd \in {entropy_cmd(nk, wire_msg, wire_msg.dst.section_key,
                                       wire_msg.dst.name, origin)}})

\* what validate_msg learns from calls into other modules: whether the
\* payload deserialises, whether the key of the msg authority is trusted,
\* the data address of a service msg (if any) and whether the pending
\* queries exceed DATA_QUERY_LIMIT
InOrder == [deserialises |-> TRUE, trusted |-> TRUE,
            dst_address |-> [some |-> FALSE, name |-> 0],
            too_many_queries |-> FALSE]

\* ae_redirect_to_our_elders: an adult points a client to the elders of its section
ae_redirect_to_our_elders(nk, origin, wire_msg) ==
    SendMsgCmd(
        AntiEntropyMsg(SectionTreeUpdate(signed_sap(nk), section_chain(nk)),
                       [ae |-> "Redirect", bounced_msg |-> serialize(wire_msg)]),
        wire_msg.msg_id, {origin}, nk)

\* cmd_error_response for Error::CannotHandleQuery
CmdErrorResponse(origin, msg_id) ==
    [cmd |-> "SendErrorResponse", origin |-> origin, msg_id |-> msg_id]

\* variant: the message is handed to its handler whatever the entropy check said
validate_msg_always_handles(nk, our_name, origin, wire_msg, facts) ==
    IF ~facts.deserialises THEN Ok(<<>>)
    ELSE IF wire_msg.kind # "Client"
    THEN IF ~facts.trusted THEN Ok(<<>>)
         ELSE Only({IF ae_cmds.err # "" THEN ae_cmds
                    ELSE Ok(ae_cmds.cmds \o
                            <<HandleValidMsgCmd("HandleValidSystemMsg", origin,
                                                wire_msg.msg_id, wire_msg.payload)>>) :
                    ae_cmds \in {apply_ae(nk, our_name, origin, wire_msg.payload,
                                           wire_msg)}})
    ELSE IF ~facts.dst_address.some THEN Ok(<<>>)
    ELSE IF ~is_elder(nk, our_name)
    THEN Ok(<<ae_redirect_to_our_elders(nk, origin, wire_msg)>>)
    ELSE IF wire_msg.payload = "Query" /\ facts.too_many_queries
    THEN Ok(<<CmdErrorResponse(origin, wire_msg.msg_id)>>)
    ELSE Only({IF ae_cmd.err # "" THEN ae_cmd
               ELSE Ok(ae_cmd.cmds \o
                       <<HandleValidMsgCmd("HandleValidServiceMsg", origin,
                                           wire_msg.msg_id, wire_msg.payload)>>) :
               ae_cmd \in {entropy_cmd(nk, wire_msg, wire_msg.dst.section_key,
                                       facts.dst_address.name, origin)}})

\* validate_msg: the commands an inbound wire message gives rise to
validate_msg(nk, our_name, origin, wire_msg, facts) ==
    IF ~facts.deserialises THEN Ok(<<>>)
    ELSE IF wire_msg.kind # "Client"
    THEN IF ~facts.trusted THEN Ok(<<>>)
         ELSE Only({IF ae_cmds.err # "" THEN ae_cmds
                    ELSE IF ae_cmds.cmds # <<>> THEN ae_cmds
                    ELSE Ok(<<HandleValidMsgCmd("HandleValidSystemMsg", origin,
                                                wire_msg.msg_id, wire_msg.payload)>>) :
                    ae_cmds \in {apply_ae(nk, our_name, origin, wire_msg.payload,
                                           wire_msg)}})
    ELSE IF ~facts.dst_address.some THEN Ok(<<>>)
    ELSE IF ~is_elder(nk, our_name)
    THEN Ok(<<ae_redirect_to_our_elders(nk, origin, wire_msg)>>)
    ELSE IF wire_msg.payload = "Query" /\ facts.too_many_queries
    THEN Ok(<<CmdErrorResponse(origin, wire_msg.msg_id)>>)
    ELSE Only({IF ae_cmd.err # "" THEN ae_cmd
               ELSE IF ae_cmd.cmds # <<>> THEN ae_cmd
               ELSE Ok(<<HandleValidMsgCmd("HandleValidServiceMsg", origin,
                                           wire_msg.msg_id, wire_msg.payload)>>) :
               ae_cmd \in {entropy_cmd(nk, wire_msg, wire_msg.dst.section_key,
                                       facts.dst_address.name, origin)}})

\* the AE messages the comms layer puts on the wire for the SendMsg commands
\* of a command list, each with the dst generated for its recipient
SentAe(sender, cmds) ==
    UNION {{[type |-> "ae", sender |-> sender, to |-> peer, msg_id |-> c.msg_id,
             dst |-> generate_dst(c.context, peer),
             section_tree_update |-> c.msg.section_tree_update,
             kind |-> c.msg.kind] : peer \in c.recipients} :
           c \in SendMsgs(cmds)}

\* whether validate_msg gets as far as the entropy check: on an elder only,
\* for a system message that is trusted and no AE message or join request, for
\* a service message that has a data address and is no query over the limit
reaches_entropy_check(nk, our_name, wire_msg, facts) ==
    /\ facts.deserialises
    /\ is_elder(nk, our_name)
    /\ IF wire_msg.kind # "Client"
       THEN facts.trusted /\ wire_msg.payload \notin SkipsEntropyCheck
       ELSE /\ facts.dst_address.some
            /\ ~(wire_msg.payload = "Query" /\ facts.too_many_queries)

\* the record of a validate_msg call: the message with the dst the entropy
\* check is made for, the result of that check if it is reached, what apply_ae
\* returns for a system message and what validate_msg returns
Validation(nk, our_name, origin, wire_msg, facts, resend) ==
    LET msg == IF wire_msg.kind # "Client" THEN wire_msg
               ELSE checked_msg(wire_msg, wire_msg.dst.section_key,
                                facts.dst_address.name)
        checked == reaches_entropy_check(nk, our_name, wire_msg, facts)
    IN [valid |-> TRUE, node |-> our_name, sender |-> origin, resend |-> resend,
        wire_msg |-> msg, nk |-> nk, facts |-> facts, checked |-> checked,
        result |-> IF checked THEN check_for_entropy(msg, nk) ELSE NoEntropy,
        ae_cmds |-> IF wire_msg.kind # "Client"
                    THEN apply_ae(nk, our_name, origin, wire_msg.payload, wire_msg)
                    ELSE Ok(<<>>),
        out |-> validate_msg(nk, our_name, origin, wire_msg, facts)]

\* A node receives a wire message that is not an AE message: validate_msg
\* runs and the AE messages it asks for are sent
ReceiveWire(env) ==
    /\ env \in net
    /\ env.type = "wire"
    /\ UNCHANGED <<world, kn, injected, lastAE, comm, disk,
                   handlerVars, lastGen, schedVars, callVars, bpVars>>
    /\ \E validation \in {Validation(kn[env.to], env.to, env.sender,
                                      from_bytes(env.bytes), InOrder, env.resend)} :
         /\ lastCheck' = validation
         /\ net' = (net \ {env}) \cup SentAe(env.to, validation.out.cmds)

\* the outcome recorded for an AE message that validate_msg did not hand to
\* its handler
NotHandled(nk) == [UntrustedUpdate(nk) EXCEPT !.err = "NotHandled"]

\* A node receives an AE message: validate_msg runs, the handler command it
\* returns runs handle_anti_entropy_msg and the SendMsg commands that one
\* returns are carried out
ReceiveAE(env) ==
    /\ env \in net
    /\ env.type = "ae"
    /\ UNCHANGED <<world, injected, lastCheck, handlerVars, lastGen, schedVars, callVars, bpVars>>
    /\ \E wire_msg \in {WireMsg(env.msg_id, "AntiEntropy", "Node", env.dst)} :
       \E validated \in {validate_msg(kn[env.to], env.to, env.sender, wire_msg,
                                       InOrder)} :
       \E handled \in {validated.cmds # <<>>
                          /\ validated.cmds[1].cmd = "HandleValidSystemMsg"} :
       \E out \in {IF handled
                    THEN handle_anti_entropy_msg(kn[env.to], kn[env.to], env.to,
                                                 env.section_tree_update, env.kind,
                                                 env.sender)
                    ELSE NotHandled(kn[env.to])} :
       \E sent \in {IF handled
                     THEN UNION {Sent(env.to, c, TRUE) : c \in SendMsgs(out.cmds)}
                     ELSE SentAe(env.to, validated.cmds)} :
            /\ kn' = [kn EXCEPT ![env.to] = out.nk]
            /\ comm' = IF out.comm_targets.called
                       THEN [comm EXCEPT ![env.to] = out.comm_targets.value]
                       ELSE comm
            /\ disk' = IF out.section_tree.called
                       THEN [disk EXCEPT ![env.to] = out.section_tree.value]
                       ELSE disk
            /\ lastAE' = [valid |-> TRUE, node |-> env.to, sender |-> env.sender,
                          wire_msg |-> wire_msg, validated |-> validated,
                          handled |-> handled,
                          section_tree_update |-> env.section_tree_update,
                          kind |-> env.kind, before |-> kn[env.to], out |-> out,
                          sent |-> sent]
            /\ net' = (net \ {env}) \cup sent


Deliver == \E env \in net : ReceiveWire(env) \/ ReceiveAE(env)

Next ==
    \/ \E p \in Prefixes : \E e \in SUBSET Nodes : Rotate(p, e)
    \/ \E s \in Nodes : \E t \in Nodes : \E k \in MsgKinds : \E m \in Payloads :
         \E d \in Names : \E key \in {UnknownKey} \cup WorldKeys :
            Inject(s, t, k, m, [name |-> d, section_key |-> key])
    \/ \E env \in net : ReceiveWire(env)
    \/ \E env \in net : ReceiveAE(env)

Spec == Init /\ [][Next]_vars

\* received messages are eventually handled
FairSpec == Spec /\ WF_vars(Deliver)

(***************************************************************************)
(* Concurrent AE handlers of one node                                      *)
(***************************************************************************)
\* the node whose handlers are followed
HandlerNodes == {0}

\* the world the handlers run in: after the first SAPs, section 0 rotates its
\* key, dropping node 0 from the elders at every other rotation
HandlerWorld ==
    [k \in 1 .. MaxKey |->
        IF k <= 3 THEN InitWorld[k]
        ELSE [prefix |-> <<0>>,
              parent |-> IF k = 4 THEN InitKey(<<0>>) ELSE k - 1,
              elders |-> IF k % 2 = 0 THEN {1} ELSE {0, 1}]]

\* the keys an AE message may advertise
AdvertisedSaps == WorldKeys \ {GenesisKey}

\* the proof chain from the genesis key, and a chain that is no branch of the
\* DAG: it starts at the first key of the other section
ProofChains(sap) ==
    {ChainTo(sap), <<InitKey(sibling(world[sap].prefix)), sap>>}

\* the AE kinds that come with a SAP: an Update without members, with the
\* members the SAP's section signed and with members signed by another key; a
\* Retry and a Redirect of a node message sent with the previous key, a Retry
\* of one sent with the advertised key and a Retry of a data response
AeKinds(sap, sender) ==
    LET bounce(kind, key) ==
            serialize(WireMsg(1, "probe", kind, [name |-> sender, section_key |-> key]))
    IN {[ae |-> "Update", members |-> m] :
            m \in {NoMembers, SomeMembers(sap, elders(sap)),
                   SomeMembers(GenesisKey, elders(sap))}}
       \cup {[ae |-> "Retry", bounced_msg |-> bounce("Node", world[sap].parent)],
             [ae |-> "Retry", bounced_msg |-> bounce("Node", sap)],
             [ae |-> "Retry", bounced_msg |-> bounce("NodeDataResponse", world[sap].parent)],
             [ae |-> "Redirect", bounced_msg |-> bounce("Node", world[sap].parent)]}

\* the elder that sends the AE message about a SAP
AeSender(sap) == CHOOSE e \in elders(sap) : \A o \in elders(sap) : o <= e

\* RwLock::read and RwLock::write: both wait while a writer holds the lock
can_read_while_written(l) == TRUE

can_read(l) == l = NoWriter

can_write(l) == l = NoWriter

\* variant: the write guard outlives the block it was taken in
drop_guard_kept(l) == l

\* the write guard goes out of scope at the end of the block that yields
\* `updated`: the lock has no writer
drop_guard(l) == NoWriter

\* the knowledge a writer has reached when the section tree is written and the
\* members are not yet
half_written(nk, new_nk) == [new_nk EXCEPT !.members = nk.members]

HandlerInit ==
    /\ world = HandlerWorld
    /\ kn \in {f \in [Nodes -> {InitKnowledge(p, b) : p \in Prefixes, b \in BOOLEAN}] :
                /\ \A n \in Nodes : f[n].prefix = PrefixOf(n)
                /\ \A n \in Nodes \ HandlerNodes : f[n] = InitKnowledge(PrefixOf(n), FALSE)}
    /\ net = {}
    /\ injected = FALSE
    /\ lastCheck = NoCheck
    /\ lastAE = NoAE
    /\ comm = [n \in Nodes |-> members(kn[n])]
    /\ disk = [n \in Nodes |-> kn[n].tree]
    /\ AtRest

\* the variables no handler step touches
offHandler == <<world, net, injected, lastCheck, lastAE, lastGen, schedVars, callVars, bpVars>>

\* an AE message is handed to a handler task together with the context of the
\* node read at that moment
Start(t, node, section_tree_update, kind, sender) ==
    /\ tasks[t].pc = "idle"
    /\ can_read(lock[node])
    /\ tasks' = [tasks EXCEPT ![t] =
                    [IdleTask EXCEPT !.pc = "update", !.node = node,
                                     !.sender = sender,
                                     !.section_tree_update = section_tree_update,
                                     !.kind = kind,
                                     !.starting_context = kn[node],
                                     !.latest_context = kn[node],
                                     !.found = kn[node],
                                     !.written.nk = kn[node],
                                     !.out.nk = kn[node]]]
    /\ UNCHANGED <<kn, comm, disk, lock, applied, offHandler>>

\* variant: the error is ignored and the handler carries on
Failed_carries_on(task, nk) ==
    [task EXCEPT !.pc = "read"]

\* the handler failed in update_knowledge_if_valid
Failed(task, nk) ==
    [task EXCEPT !.pc = "done", !.out = UntrustedUpdate(nk)]

\* the update is tried on a clone of the starting context
TryUpdate(t) ==
    /\ tasks[t].pc = "update"
    /\ UNCHANGED <<kn, comm, disk, lock, applied, offHandler>>
    /\ \E task \in {tasks[t]} :
       \E should_update \in {update_knowledge_if_valid(
                                 task.starting_context, task.section_tree_update,
                                 members_of(task.kind), task.node)} :
         tasks' = [tasks EXCEPT ![t] =
                     IF should_update.err THEN Failed(task, task.starting_context)
                     ELSE IF should_update.updated
                     THEN [task EXCEPT !.pc = "lock", !.should_update = TRUE]
                     ELSE [task EXCEPT !.pc = "read"]]

\* the write lock is taken and the update is applied to the knowledge of the
\* node as it is now: first the section tree
Lock(t) ==
    /\ tasks[t].pc = "lock"
    /\ can_write(lock[tasks[t].node])
    /\ UNCHANGED <<comm, disk, applied, offHandler>>
    /\ \E task \in {tasks[t]} :
       \E written \in {apply_update(kn[task.node], task.starting_context, task.node,
                                    task.section_tree_update, task.kind)} :
       \E half \in {half_written(kn[task.node], written.nk)} :
         /\ lock' = [lock EXCEPT ![task.node] = t]
         /\ kn' = [kn EXCEPT ![task.node] = half]
         /\ tasks' = [tasks EXCEPT ![t] =
                        [task EXCEPT !.pc = "unlock", !.locked = TRUE,
                                     !.found = kn[task.node],
                                     !.written = written,
                                     !.touched = half # kn[task.node]]]

\* then the members; the lock is released at the end of the block, also when
\* the update failed
Unlock(t) ==
    /\ tasks[t].pc = "unlock"
    /\ UNCHANGED <<comm, disk, offHandler>>
    /\ \E task \in {tasks[t]} :
         /\ lock' = [lock EXCEPT ![task.node] = drop_guard(@)]
         /\ kn' = [kn EXCEPT ![task.node] = task.written.nk]
         /\ applied' = IF task.written.updated /\ ~task.written.err
                       THEN [applied EXCEPT ![task.node].updates =
                                Append(@, [section_tree_update |-> task.section_tree_update,
                                           members |-> members_of(task.kind)])]
                       ELSE applied
         /\ tasks' = [tasks EXCEPT ![t] =
                        IF task.written.err
                        THEN [Failed(task, task.written.nk) EXCEPT
                                !.touched = task.touched \/ task.written.nk # kn[task.node]]
                        ELSE [task EXCEPT
                                !.pc = "read", !.updated = task.written.updated,
                                !.touched = task.touched \/ task.written.nk # kn[task.node]]]

\* the latest context is read and everything the handler does next is decided
Latest(t) ==
    /\ tasks[t].pc = "read"
    /\ can_read(lock[tasks[t].node])
    /\ UNCHANGED <<kn, comm, disk, lock, applied, offHandler>>
    /\ \E task \in {tasks[t]} :
       \E out \in {after_update(kn[task.node], task.starting_context, task.node,
                                task.updated, task.section_tree_update, task.kind,
                                task.sender)} :
         tasks' = [tasks EXCEPT ![t] =
                     [task EXCEPT !.pc = IF out.comm_targets.called
                                            \/ out.section_tree.called
                                         THEN "effects" ELSE "return",
                                  !.latest_context = kn[task.node],
                                  !.out = [nk |-> kn[task.node]] @@ out]]

\* set_comm_targets and write_section_tree
Effects(t) ==
    /\ tasks[t].pc = "effects"
    /\ UNCHANGED <<kn, lock, applied, offHandler>>
    /\ \E task \in {tasks[t]} :
         /\ comm' = IF task.out.comm_targets.called
                    THEN [comm EXCEPT ![task.node] = task.out.comm_targets.value]
                    ELSE comm
         /\ disk' = IF task.out.section_tree.called
                    THEN [disk EXCEPT ![task.node] = task.out.section_tree.value]
                    ELSE disk
         /\ tasks' = [tasks EXCEPT ![t] =
                        [task EXCEPT !.pc = "return",
                                     !.comm_set =
                                        IF task.out.comm_targets.called
                                        THEN Called(comm'[task.node]) ELSE NotCalled,
                                     !.tree_written =
                                        IF task.out.section_tree.called
                                        THEN Called(disk'[task.node]) ELSE TreeNotWritten,
                                     !.touched = TRUE]]

\* the handler returns its commands or its error
Return(t) ==
    /\ tasks[t].pc = "return"
    /\ tasks' = [tasks EXCEPT ![t].pc = "done"]
    /\ UNCHANGED <<kn, comm, disk, lock, applied, offHandler>>

HandlerNext ==
    \/ \E t \in Handlers : \E node \in HandlerNodes : \E sap \in AdvertisedSaps :
         \E chain \in ProofChains(sap) : \E kind \in AeKinds(sap, AeSender(sap)) :
            Start(t, node, SectionTreeUpdate(sap, chain), kind, AeSender(sap))
    \/ \E t \in Handlers : TryUpdate(t)
    \/ \E t \in Handlers : Lock(t)
    \/ \E t \in Handlers : Unlock(t)
    \/ \E t \in Handlers : Latest(t)
    \/ \E t \in Handlers : Effects(t)
    \/ \E t \in Handlers : Return(t)

HandlerSpec == HandlerInit /\ [][HandlerNext]_vars

\* where each handler task is; every step of a handler changes it
handlerPcs == [t \in Handlers |-> tasks[t].pc]

\* the handlers under a fair lock and a fair executor: a task that can take
\* its next step takes it in the end; nothing obliges an AE message to arrive
FairHandlerSpec ==
    /\ HandlerSpec
    /\ \A t \in Handlers :
          /\ WF_handlerPcs(TryUpdate(t))
          /\ WF_handlerPcs(Lock(t))
          /\ WF_handlerPcs(Unlock(t))
          /\ WF_handlerPcs(Latest(t))
          /\ WF_handlerPcs(Effects(t))
          /\ WF_handlerPcs(Return(t))

(***************************************************************************)
(* Single calls of validate_msg and generate_anti_entropy_cmds             *)
(***************************************************************************)
\* gen_ae_response_cmd_to_client
gen_ae_response_cmd_to_client(correlation_id, context, source_client, response_stream, bounced_msg, section_tree_update) ==
    [cmd |-> "SendClientResponse",
     msg |-> [payload |-> "AntiEntropy", section_tree_update |-> section_tree_update,
              bounced_msg |-> bounced_msg],
     correlation_id |-> correlation_id, send_stream |-> response_stream,
     context |-> context, source_client |-> source_client]

\* Cmd::SendNodeMsgResponse
SendNodeMsgResponse(msg, msg_id, send_stream, recipient, context) ==
    [cmd |-> "SendNodeMsgResponse", msg |-> msg, msg_id |-> msg_id,
     send_stream |-> send_stream, recipient |-> recipient, context |-> context]

\* variant: the reply to a node always goes over a fresh connection
generate_anti_entropy_cmds_fresh_conn(context, wire_msg, origin, section_tree_update, kind, send_stream) ==
    LET msg_id == wire_msg.msg_id
        track_node_cmd == TrackNodeIssueCmd(origin, "NetworkKnowledge")
    IN IF wire_msg.kind = "Client"
       THEN IF send_stream.some
            THEN Ok(<<gen_ae_response_cmd_to_client(
                        msg_id, context, origin, send_stream, serialize(wire_msg),
                        section_tree_update)>>)
            ELSE Ok(<<>>)
       ELSE IF wire_msg.kind \in {"Node", "NodeDataResponse"}
       THEN IF FALSE
            THEN Ok(<<track_node_cmd,
                      SendNodeMsgResponse(AntiEntropyMsg(section_tree_update, kind),
                                          msg_id, send_stream, origin, context)>>)
            ELSE Ok(<<track_node_cmd,
                      SendMsgCmd(AntiEntropyMsg(section_tree_update, kind),
                                 msg_id, {origin}, context)>>)
       ELSE Ok(<<>>)

\* MyNode::generate_anti_entropy_cmds
generate_anti_entropy_cmds(context, wire_msg, origin, section_tree_update, kind, send_stream) ==
    LET msg_id == wire_msg.msg_id
        track_node_cmd == TrackNodeIssueCmd(origin, "NetworkKnowledge")
    IN IF wire_msg.kind = "Client"
       THEN IF send_stream.some
            THEN Ok(<<gen_ae_response_cmd_to_client(
                        msg_id, context, origin, send_stream, serialize(wire_msg),
                        section_tree_update)>>)
            ELSE Ok(<<>>)
       ELSE IF wire_msg.kind \in {"Node", "NodeDataResponse"}
       THEN IF send_stream.some
            THEN Ok(<<track_node_cmd,
                      SendNodeMsgResponse(AntiEntropyMsg(section_tree_update, kind),
                                          msg_id, send_stream, origin, context)>>)
            ELSE Ok(<<track_node_cmd,
                      SendMsgCmd(AntiEntropyMsg(section_tree_update, kind),
                                 msg_id, {origin}, context)>>)
       ELSE Ok(<<>>)

\* the names of a set in ascending order, the order of a BTreeSet
RECURSIVE ByName(_)
ByName(names) ==
    IF names = {} THEN <<>>
    ELSE LET first == CHOOSE x \in names : \A y \in names : x <= y
         IN <<first>> \o ByName(names \ {first})

\* the results of comm.send_out_bytes
SendOk == [tag |-> "Ok"]

FailedSend(peer) == [tag |-> "FailedSend", peer |-> peer]

OtherCommsError == [tag |-> "Error"]

\* Cmd::HandleFailedSendToNode
HandleFailedSendToNode(peer, msg_id) ==
    [cmd |-> "HandleFailedSendToNode", peer |-> peer, msg_id |-> msg_id]

\* variant: a send that failed is made once more
send_msg_resends(context, msg, msg_id, recipients, send_out_bytes) ==
    LET peer_msgs == into_msg_bytes(context, "Node", msg, msg_id, recipients)
        peers == ByName({pm[1] : pm \in peer_msgs})
        results == [i \in 1 .. Len(peers) |-> send_out_bytes[peers[i]]]
        failed == SelectSeq(results, LAMBDA r : r.tag = "FailedSend")
    IN [sent |-> peers \o [i \in 1 .. Len(failed) |-> failed[i].peer],
        out |-> Ok([i \in 1 .. Len(failed) |->
                       HandleFailedSendToNode(failed[i].peer, msg_id)])]

\* MyNode::send_msg: the message is handed to comm.send_out_bytes once for
\* each recipient (sent), and each FailedSend(peer) among the results gives a
\* HandleFailedSendToNode command (out)
send_msg(context, msg, msg_id, recipients, send_out_bytes) ==
    LET peer_msgs == into_msg_bytes(context, "Node", msg, msg_id, recipients)
        peers == ByName({pm[1] : pm \in peer_msgs})
        results == [i \in 1 .. Len(peers) |-> send_out_bytes[peers[i]]]
        failed == SelectSeq(results, LAMBDA r : r.tag = "FailedSend")
    IN [sent |-> peers,
        out |-> Ok([i \in 1 .. Len(failed) |->
                       HandleFailedSendToNode(failed[i].peer, msg_id)])]

\* what comm.send_out_bytes may answer for a peer
SendResults(peer) == {SendOk, FailedSend(peer), OtherCommsError}

\* the system messages and the service messages a node is called with
SystemMsgs == {"probe"} \cup SkipsEntropyCheck

ServiceMsgs == {"Query", "Cmd"}

\* the dsts a message may carry: any name, with a key of the network or a
\* key nobody knows
Dsts == {[name |-> d, section_key |-> k] : d \in Names, k \in {UnknownKey} \cup WorldKeys}

\* what validate_msg may learn about a system message
SystemFacts ==
    {InOrder, [InOrder EXCEPT !.deserialises = FALSE],
     [InOrder EXCEPT !.trusted = FALSE]}

\* what validate_msg may learn about a service message whose dst names a
\* data address, or none
ServiceFacts(dst_name) ==
    {InOrder, [InOrder EXCEPT !.deserialises = FALSE]}
    \cup {[InOrder EXCEPT !.dst_address = [some |-> TRUE, name |-> dst_name],
                          !.too_many_queries = q] : q \in BOOLEAN}

\* nothing has been called yet
NoCall ==
    /\ ~lastCheck.valid /\ ~lastGen.valid /\ ~lastSend.valid /\ ~lastAE.valid
    /\ ~lastUpdate.valid /\ ~lastCore.valid

\* keys rotate until the call is made
UnitRotate(prefix, new_elders) ==
    /\ NoCall
    /\ Rotate(prefix, new_elders)

\* a node that took no part in the rotation of its section has handled the
\* AE Update that send_ae_update_to_our_section sent it, and holds the new SAP
UnitLearn(node) ==
    /\ NoCall
    /\ \E key \in {CurrentKey(kn[node].prefix)} :
         /\ section_key(kn[node]) # key
         /\ kn' = [kn EXCEPT ![node].tree[kn[node].prefix] = key,
                             ![node].dag = @ \cup Range(ChainTo(key))]
    /\ UNCHANGED <<world, net, injected, lastCheck, lastAE, comm, disk,
                   handlerVars, lastGen, schedVars, callVars, bpVars>>

\* validate_msg is called on a node with a message from origin
ValidateMsg(node, origin, wire_msg, facts) ==
    /\ NoCall
    /\ node # origin
    /\ lastCheck' = Validation(kn[node], node, origin, wire_msg, facts, FALSE)
    /\ UNCHANGED <<world, kn, net, injected, lastAE, comm, disk,
                   handlerVars, lastGen, schedVars, callVars, bpVars>>

\* generate_anti_entropy_cmds is called with the AE response the entropy check
\* found for a message from origin
GenerateAeCmds(node, origin, wire_msg, send_stream) ==
    /\ NoCall
    /\ node # origin
    /\ UNCHANGED <<world, kn, net, injected, lastCheck, lastAE, comm, disk,
                   handlerVars, schedVars, callVars, bpVars>>
    /\ \E found \in {check_for_entropy(wire_msg, kn[node])} :
         /\ found.tag = "Some"
         /\ lastGen' = [valid |-> TRUE, context |-> kn[node], origin |-> origin,
                        wire_msg |-> wire_msg,
                        section_tree_update |-> found.section_tree_update,
                        kind |-> found.kind, send_stream |-> send_stream,
                        out |-> generate_anti_entropy_cmds(
                                    kn[node], wire_msg, origin,
                                    found.section_tree_update, found.kind,
                                    send_stream)]

\* send_msg is called on a node with a message for some peers, and the
\* comms layer answers each send
CallSendMsg(node, msg_id, recipients, send_out_bytes) ==
    /\ NoCall
    /\ \E call \in {send_msg(kn[node], "probe", msg_id, recipients, send_out_bytes)} :
         lastSend' = [valid |-> TRUE, node |-> node, msg_id |-> msg_id,
                      recipients |-> recipients, results |-> send_out_bytes,
                      sent |-> call.sent, out |-> call.out]
    /\ UNCHANGED <<world, kn, net, injected, lastCheck, lastAE, comm, disk,
                   handlerVars, lastGen, schedVars, lastUpdate, lastCore, bpVars>>

\* SectionsDAG::get_parent_key: Err when the key is not in the DAG, None for
\* the genesis key, else the parent
get_parent_key(nk, key) ==
    IF key \notin nk.dag THEN [ok |-> FALSE, some |-> FALSE, key |-> UnknownKey]
    ELSE IF key = GenesisKey THEN [ok |-> TRUE, some |-> FALSE, key |-> UnknownKey]
    ELSE [ok |-> TRUE, some |-> TRUE, key |-> world[key].parent]

\* NetworkKnowledge::section_signed_members
section_signed_members(nk) == SomeMembers(section_key(nk), members(nk))

\* the MsgId that Cmd::send_msg makes for the message it wraps
NewMsgId == 1

\* Option<Cmd>: None
NoCmd == [some |-> FALSE]

SomeCmd(cmd) == [some |-> TRUE, cmd |-> cmd]

\* variant: the Update is sent to the elders of our section
send_ae_update_to_nodes_to_elders(context, recipients, section_pk) ==
    SendMsgCmd(
        AntiEntropyMsg(generate_ae_section_tree_update(context, section_pk),
                       [ae |-> "Update", members |-> section_signed_members(context)]),
        NewMsgId, elders(signed_sap(context)), context)

\* send_ae_update_to_nodes: an AE Update with our SAP, the proof chain from
\* section_pk and our members, for the recipients
send_ae_update_to_nodes(context, recipients, section_pk) ==
    SendMsgCmd(
        AntiEntropyMsg(generate_ae_section_tree_update(context, section_pk),
                       [ae |-> "Update", members |-> section_signed_members(context)]),
        NewMsgId, recipients, context)

\* send_ae_update_to_our_section
send_ae_update_to_our_section(context, our_name) ==
    LET recipients == {name \in members(context) : name # our_name}
        leaf == Last(section_chain(context))
        parent == get_parent_key(context, leaf)
        prev_pk == IF parent.some THEN parent.key ELSE GenesisKey
    IN IF recipients = {} THEN NoCmd
       ELSE IF parent.ok
       THEN SomeCmd(send_ae_update_to_nodes(context, recipients, prev_pk))
       ELSE NoCmd

\* the knowledge of a node of the first section, whose chain is the genesis key
GenesisKnowledge ==
    [prefix |-> <<>>, members |-> Nodes,
     tree |-> [p \in Prefixes \cup {<<>>} |-> IF p = <<>> THEN GenesisKey ELSE NoSap],
     dag |-> {GenesisKey}]

\* the dst of the wire message that send_msg makes for each recipient of a
\* SendMsg command
WireDsts(cmd) ==
    {<<pm[1], from_bytes(pm[2]).dst>> :
        pm \in into_msg_bytes(cmd.context, "Node", cmd.msg, cmd.msg_id, cmd.recipients)}

\* send_ae_update_to_our_section is called on a node, and the command it
\* returns is processed by send_msg
CallUpdateOurSection(node, context) ==
    /\ NoCall
    /\ \E out \in {send_ae_update_to_our_section(context, node)} :
         lastUpdate' = [valid |-> TRUE, fn |-> "send_ae_update_to_our_section",
                        node |-> node, context |-> context, out |-> out,
                        dsts |-> IF out.some THEN WireDsts(out.cmd) ELSE {}]
    /\ UNCHANGED <<world, kn, net, injected, lastCheck, lastAE, comm, disk,
                   handlerVars, lastGen, schedVars, lastSend, lastCore, bpVars>>

(***************************************************************************)
(* The routing Core: check_for_entropy and check_dest_section_pk           *)
(***************************************************************************)
\* SecuredLinkedList::cmp_by_position: the key nearer to the last key is the
\* greater one; a key of the chain is greater than a key outside it, and two
\* keys outside it are equal
cmp_by_position(chain, lhs, rhs) ==
    LET l == IndexOf(chain, lhs)
        r == IndexOf(chain, rhs)
    IN IF l < r THEN "Less" ELSE IF l > r THEN "Greater" ELSE "Equal"

\* the node messages the routing Core is called with
CoreMsgs == {"StartConnectivityTest", "JoinRequest", "JoinAsRelocatedRequest"}

\* Option<BlsPublicKey>: what DstLocation::section_pk gives
NoKey == [some |-> FALSE]

SomeKey(key) == [some |-> TRUE, key |-> key]

\* SrcLocation::Node
SrcNode(name, section_pk) == [name |-> name, section_pk |-> section_pk]

\* Core::check_dest_section_pk: when the dst key comes before our last key in
\* our chain, the message is bounced to its sender in an AntiEntropyRetry
\* with our SAP and the proof chain from the dst key, or our whole chain
check_dest_section_pk(nk, our_name, node_msg, src_location, dst_section_pk, sender) ==
    IF cmp_by_position(section_chain(nk), dst_section_pk, Last(section_chain(nk))) = "Less"
    THEN LET to_current == get_proof_chain_to_current_section(nk, dst_section_pk)
             proof_chain == IF to_current.ok THEN to_current.chain
                            ELSE section_chain(nk)
         IN SomeCmd([cmd |-> "SendMessage",
                     recipients |-> {<<src_location.name, sender>>},
                     wire_msg |->
                        [src |-> our_name,
                         dst |-> src_location,
                         section_key |-> section_key(nk),
                         msg |-> [node_msg |-> "AntiEntropyRetry",
                                  section_auth |-> signed_sap(nk),
                                  section_signed |-> section_key(nk),
                                  proof_chain |-> proof_chain,
                                  bounced_msg |-> node_msg]]])
    ELSE NoCmd

\* Core::check_for_entropy: adults and join requests are let through, and so
\* is a message whose dst has no section key
Core_check_for_entropy(nk, our_name, node_msg, src_location, dst_section_pk, sender) ==
    IF ~is_elder(nk, our_name) THEN NoCmd
    ELSE IF node_msg \in {"JoinRequest", "JoinAsRelocatedRequest"} THEN NoCmd
    ELSE IF ~dst_section_pk.some THEN NoCmd
    ELSE check_dest_section_pk(nk, our_name, node_msg, src_location,
                               dst_section_pk.key, sender)

\* Core::check_for_entropy is called on a node with a message from sender;
\* dest is what check_dest_section_pk gives for its dst key
CallCoreCheck(node, sender, node_msg, src_section_pk, dst_section_pk) ==
    /\ NoCall
    /\ node # sender
    /\ \E src_location \in {SrcNode(sender, src_section_pk)} :
         lastCore' =
            [valid |-> TRUE, fn |-> "check_for_entropy", node |-> node,
             nk |-> kn[node], node_msg |-> node_msg, src_location |-> src_location,
             dst_section_pk |-> dst_section_pk, sender |-> sender,
             dest |-> IF dst_section_pk.some
                      THEN check_dest_section_pk(kn[node], node, node_msg,
                               src_location, dst_section_pk.key, sender)
                      ELSE NoCmd,
             out |-> Core_check_for_entropy(kn[node], node, node_msg,
                         src_location, dst_section_pk, sender)]
    /\ UNCHANGED <<world, kn, net, injected, lastCheck, lastAE, comm, disk,
                   handlerVars, lastGen, schedVars, lastSend, lastUpdate, bpVars>>

\* Network::update_remote_section_sap: whether the SAP, vouched for by a
\* proof chain that starts at a key we know, told us anything new
update_remote_section_sap(nk, section_signed, proof_chain) ==
    /\ proof_chain_trusted(nk, SectionTreeUpdate(section_signed, proof_chain))
    /\ section_signed \notin nk.dag

\* Core::handle_anti_entropy_retry_msg: the bounced message goes back to its
\* sender with the key of the SAP when the SAP was news, and nowhere otherwise
handle_anti_entropy_retry_msg(nk, section_auth, proof_chain, bounced_msg, sender, src_name) ==
    IF update_remote_section_sap(nk, section_auth, proof_chain)
    THEN <<[cmd |-> "SendMessage", recipients |-> {<<src_name, sender>>},
            msg |-> bounced_msg, dst_section_pk |-> section_auth]>>
    ELSE <<>>

\* Core::handle_anti_entropy_retry_msg is called on a node with the Retry an
\* elder of the SAP sent for a message that went out with the key sent_with
CallCoreRetry(node, section_auth, proof_chain, sent_with) ==
    /\ NoCall
    /\ \E sender \in {AeSender(section_auth)} :
         /\ node # sender
         /\ lastCore' =
              [valid |-> TRUE, fn |-> "handle_anti_entropy_retry_msg", node |-> node,
               nk |-> kn[node], section_auth |-> section_auth,
               proof_chain |-> proof_chain, sender |-> sender,
               bounced_msg |-> "StartConnectivityTest", sent_with |-> sent_with,
               trusted |-> proof_chain_trusted(
                              kn[node], SectionTreeUpdate(section_auth, proof_chain)),
               updated |-> update_remote_section_sap(kn[node], section_auth, proof_chain),
               out |-> handle_anti_entropy_retry_msg(
                           kn[node], section_auth, proof_chain,
                           "StartConnectivityTest", sender, sender)]
    /\ UNCHANGED <<world, kn, net, injected, lastCheck, lastAE, comm, disk,
                   handlerVars, lastGen, schedVars, lastSend, lastUpdate, bpVars>>

\* handle_anti_entropy_msg is called on a node with an AE message of an elder
\* of the SAP, and runs to its end
CallHandleAe(node, section_tree_update, kind, sender) ==
    /\ NoCall
    /\ node # sender
    /\ \E out \in {handle_anti_entropy_msg(kn[node], kn[node], node,
                                           section_tree_update, kind, sender)} :
         /\ lastAE' = [NoAE EXCEPT !.valid = TRUE, !.node = node, !.sender = sender,
                                   !.handled = TRUE,
                                   !.section_tree_update = section_tree_update,
                                   !.kind = kind, !.before = kn[node], !.out = out]
         /\ kn' = [kn EXCEPT ![node] = out.nk]
         /\ comm' = IF out.comm_targets.called
                    THEN [comm EXCEPT ![node] = out.comm_targets.value]
                    ELSE comm
         /\ disk' = IF out.section_tree.called
                    THEN [disk EXCEPT ![node] = out.section_tree.value]
                    ELSE disk
    /\ UNCHANGED <<world, net, injected, lastCheck, handlerVars, lastGen,
                   schedVars, callVars, bpVars>>

UnitNext ==
    \/ /\ NoCall
       /\ \E p \in Prefixes : \E e \in SUBSET Nodes : UnitRotate(p, e)
    \/ /\ NoCall
       /\ \E node \in Nodes : UnitLearn(node)
    \/ /\ NoCall
       /\ \E node \in Nodes : \E origin \in Nodes : \E dst \in Dsts :
            \E msg \in SystemMsgs : \E facts \in SystemFacts :
               ValidateMsg(node, origin, WireMsg(1, msg, "Node", dst), facts)
    \/ /\ NoCall
       /\ \E node \in Nodes : \E origin \in Nodes : \E dst \in Dsts :
            \E msg \in ServiceMsgs : \E facts \in ServiceFacts(dst.name) :
               ValidateMsg(node, origin, WireMsg(1, msg, "Client", dst), facts)
    \/ /\ NoCall
       /\ \E node \in Nodes : \E origin \in Nodes : \E dst \in Dsts :
            \E kind \in {"Client", "Node", "NodeDataResponse", "ClientDataResponse"} :
            \E send_stream \in {NoStream, SomeStream} :
               GenerateAeCmds(node, origin, WireMsg(1, "probe", kind, dst), send_stream)
    \/ /\ NoCall
       /\ \E node \in Nodes : \E recipients \in SUBSET Nodes :
            \E send_out_bytes \in [recipients -> {"Ok", "FailedSend", "Error"}] :
               CallSendMsg(node, 1, recipients,
                           [peer \in recipients |->
                              CHOOSE r \in SendResults(peer) :
                                 r.tag = send_out_bytes[peer]])
    \/ /\ NoCall
       /\ \E node \in Nodes : \E context \in {kn[node], GenesisKnowledge} :
             CallUpdateOurSection(node, context)
    \/ /\ NoCall
       /\ \E node \in Nodes : \E sender \in Nodes : \E node_msg \in CoreMsgs :
            \E src_section_pk \in WorldKeys :
            \E dst_section_pk \in {NoKey} \cup {SomeKey(k) : k \in {UnknownKey} \cup WorldKeys} :
               CallCoreCheck(node, sender, node_msg, src_section_pk, dst_section_pk)
    \/ /\ NoCall
       /\ \E node \in Nodes : \E sap \in AdvertisedSaps : \E chain \in ProofChains(sap) :
            \E sent_with \in WorldKeys :
               CallCoreRetry(node, sap, chain, sent_with)
    \/ /\ NoCall
       /\ \E node \in Nodes : \E sap \in AdvertisedSaps : \E chain \in ProofChains(sap) :
            \E kind \in AeKinds(sap, AeSender(sap)) :
               CallHandleAe(node, SectionTreeUpdate(sap, chain), kind, AeSender(sap))

UnitSpec == Init /\ [][UnitNext]_vars

(***************************************************************************)
(* The split of section <<0>> and the Updates for the sibling section       *)
(***************************************************************************)
\* the prefix that splits and the prefixes of its two halves
SplitPrefix == <<0>>

ChildPrefixes == {<<0, 0>>, <<0, 1>>}

\* the half of the split section that a name falls in
ChildOf(name) == <<Bit(name, 1), Bit(name, 2)>>

\* NetworkKnowledge::elders
context_elders(nk) == elders(signed_sap(nk))

\* SectionTree::get_signed, NoSap standing for None
get_signed(nk, prefix) ==
    IF prefix \in DOMAIN nk.tree THEN nk.tree[prefix] ELSE NoSap

\* send_updates_to_sibling_section: the list of commands it returns
send_updates_to_sibling_section(prev_context) ==
    LET sibling_prefix == sibling(prev_context.prefix)
        sibling_sap == get_signed(prev_context, sibling_prefix)
        promoted_sibling_elders ==
            {peer \in elders(sibling_sap) : peer \notin context_elders(prev_context)}
        previous_section_key == section_key(prev_context)
    IN IF sibling_sap # NoSap
       THEN IF promoted_sibling_elders = {} THEN <<>>
            ELSE <<send_ae_update_to_nodes(prev_context, promoted_sibling_elders,
                                           previous_section_key)>>
       ELSE <<>>

\* knowledge of a node before the split: the halves are not known yet
SplitKnowledge(prefix, knows_neighbour) ==
    [prefix |-> prefix,
     members |-> {n \in Nodes : matches(prefix, n)},
     tree |-> [p \in Prefixes \cup ChildPrefixes |->
                 IF p = prefix \/ (knows_neighbour /\ p \in Prefixes)
                 THEN InitKey(p) ELSE NoSap],
     dag |-> {GenesisKey, InitKey(prefix)}
             \cup (IF knows_neighbour THEN {InitKey(sibling(prefix))} ELSE {})]

\* the sections before the split, for every choice of elders of the section
\* that is about to split
SplitInit ==
    /\ world \in {[InitWorld EXCEPT ![InitKey(SplitPrefix)].elders = e] :
                    e \in {{0}, {1}, {0, 1}}}
    /\ kn \in {f \in [Nodes -> {SplitKnowledge(p, b) : p \in Prefixes, b \in BOOLEAN}] :
                \A n \in Nodes : f[n].prefix = PrefixOf(n)}
    /\ net = {}
    /\ injected = FALSE
    /\ lastCheck = NoCheck
    /\ lastAE = NoAE
    /\ comm = [n \in Nodes |-> members(kn[n])]
    /\ disk = [n \in Nodes |-> kn[n].tree]
    /\ AtRest

\* the variables the split does not touch
offSplit == <<net, injected, lastCheck, lastAE, comm, disk, handlerVars,
              lastGen, schedVars, lastSend, lastCore, bpVars>>

\* the section splits: each half gets a SAP signed by the key of the section
\* before the split, with the members of the half as elders
Split ==
    /\ Len(world) = Len(InitWorld)
    /\ world' = world \o
                   <<[prefix |-> <<0, 0>>, parent |-> InitKey(SplitPrefix),
                      elders |-> {n \in Nodes : matches(<<0, 0>>, n)}],
                     [prefix |-> <<0, 1>>, parent |-> InitKey(SplitPrefix),
                      elders |-> {n \in Nodes : matches(<<0, 1>>, n)}]>>
    /\ UNCHANGED <<kn, lastUpdate, offSplit>>

\* a node of the section that split learns the SAP of the other half before
\* its own
LearnSiblingSap(node) ==
    /\ Len(world) > Len(InitWorld)
    /\ kn[node].prefix = SplitPrefix
    /\ \E key \in {CurrentKey(sibling(ChildOf(node)))} :
         /\ kn[node].tree[sibling(ChildOf(node))] = NoSap
         /\ kn' = [kn EXCEPT ![node].tree[sibling(ChildOf(node))] = key,
                             ![node].dag = @ \cup {key}]
    /\ UNCHANGED <<world, lastUpdate, offSplit>>

\* a node of the section that split takes up the SAP of its half, with or
\* without that of the other half, and send_updates_to_sibling_section is
\* called with the context it had before
HandleSplit(node, with_sibling) ==
    /\ Len(world) > Len(InitWorld)
    /\ kn[node].prefix = SplitPrefix
    /\ \E prev_context \in {kn[node]} :
       \E key \in {CurrentKey(ChildOf(node))} :
       \E sibling_key \in {IF with_sibling THEN CurrentKey(sibling(ChildOf(node)))
                            ELSE prev_context.tree[sibling(ChildOf(node))]} :
       \E out \in {send_updates_to_sibling_section(prev_context)} :
         /\ kn' = [kn EXCEPT ![node] =
                      [prefix |-> ChildOf(node),
                       members |-> {n \in Nodes : matches(ChildOf(node), n)},
                       tree |-> [prev_context.tree EXCEPT
                                    ![ChildOf(node)] = key,
                                    ![sibling(ChildOf(node))] = sibling_key],
                       dag |-> prev_context.dag \cup {key}
                               \cup (IF sibling_key # NoSap THEN {sibling_key} ELSE {})]]
         /\ lastUpdate' = [valid |-> TRUE, fn |-> "send_updates_to_sibling_section",
                           node |-> node, prev_context |-> prev_context,
                           context |-> kn'[node], out |-> out,
                           dsts |-> UNION {WireDsts(out[i]) : i \in 1 .. Len(out)}]
    /\ UNCHANGED <<world, offSplit>>

SplitNext ==
    \/ Split
    \/ \E node \in Nodes : LearnSiblingSap(node)
    \/ \E node \in Nodes : \E with_sibling \in BOOLEAN : HandleSplit(node, with_sibling)

SplitSpec == SplitInit /\ [][SplitNext]_vars

(***************************************************************************)
(* Section tree updates applied in every order                             *)
(***************************************************************************)
\* the number of updates applied to the knowledge of a node
MaxUpdates == 3

\* the nodes that are given updates: one of each section
UpdateNodes == {0, 2}

\* a network in which section <<0>> has rotated its key twice
RotatedWorld ==
    InitWorld \o
        <<[prefix |-> <<0>>, parent |-> InitKey(<<0>>), elders |-> {1}],
          [prefix |-> <<0>>, parent |-> Len(InitWorld) + 1, elders |-> {0, 1}]>>

\* the proof chains an update may carry for a SAP: the branch of the DAG that
\* ends in its key, from any key of the branch
UpdateChains(sap) ==
    {SubSeq(ChainTo(sap), i, Len(ChainTo(sap))) : i \in 1 .. Len(ChainTo(sap))}

\* the updates a node may be given: a SAP with a proof chain, alone or with
\* the members its section signed
Updates ==
    UNION {{[section_tree_update |-> SectionTreeUpdate(sap, chain), members |-> m] :
                chain \in UpdateChains(sap),
                m \in {NoMembers, SomeMembers(sap, elders(sap))}} :
            sap \in AdvertisedSaps}

\* update_knowledge_if_valid returns no error for the update
Validated(nk, update, our_name) ==
    ~update_knowledge_if_valid(nk, update.section_tree_update, update.members,
                               our_name).err

\* one node is given updates, the others are left alone
UpdateInit ==
    /\ world = RotatedWorld
    /\ \E knows_sibling \in BOOLEAN :
          kn = [n \in Nodes |-> InitKnowledge(PrefixOf(n), knows_sibling)]
    /\ net = {}
    /\ injected = FALSE
    /\ lastCheck = NoCheck
    /\ lastAE = NoAE
    /\ comm = [n \in Nodes |-> members(kn[n])]
    /\ disk = [n \in Nodes |-> kn[n].tree]
    /\ AtRest

\* update_knowledge_if_valid is called on the knowledge of a node with an
\* update that its starting knowledge validates and that it was not given yet
ApplyUpdate(node, update) ==
    /\ Len(applied[node].updates) < MaxUpdates
    /\ \A n \in Nodes \ {node} : applied[n].updates = <<>>
    /\ update \notin Range(applied[node].updates)
    /\ Validated(applied[node].from, update, node)
    /\ kn' = [kn EXCEPT ![node] =
                 update_knowledge_if_valid(kn[node], update.section_tree_update,
                                           update.members, node).nk]
    /\ applied' = [applied EXCEPT ![node].updates = Append(@, update)]
    /\ UNCHANGED <<world, net, injected, lastCheck, lastAE, comm, disk, tasks,
                   lock, lastGen, schedVars, callVars, bpVars>>

\* update_knowledge_if_valid is called a second time with the update it was
\* called with last
ApplyAgain(node) ==
    /\ applied[node].updates # <<>>
    /\ Len(applied[node].updates) < MaxUpdates
    /\ \E update \in {Last(applied[node].updates)} :
         /\ Len(applied[node].updates) > 1
               => applied[node].updates[Len(applied[node].updates) - 1] # update
         /\ kn' = [kn EXCEPT ![node] =
                      update_knowledge_if_valid(kn[node], update.section_tree_update,
                                                update.members, node).nk]
         /\ applied' = [applied EXCEPT ![node].updates = Append(@, update)]
    /\ UNCHANGED <<world, net, injected, lastCheck, lastAE, comm, disk, tasks,
                   lock, lastGen, schedVars, callVars, bpVars>>

UpdateNext ==
    \/ \E node \in UpdateNodes : \E update \in Updates : ApplyUpdate(node, update)
    \/ \E node \in UpdateNodes : ApplyAgain(node)

UpdateSpec == UpdateInit /\ [][UpdateNext]_vars

(***************************************************************************)
(* The command scheduler                                                   *)
(***************************************************************************)
\* the number of command jobs created in a run of the scheduler
MaxJobs == 3

\* WireMsg::priority / SystemMsg::priority: the priorities a message may have
WirePriorities == {2, -8}

\* variant: maintenance has the priority of a control-plane decision
priority_no_background(cmd) ==
    CASE cmd.cmd \in {"HandleAgreement", "HandleNewEldersAgreement",
                      "HandleDkgOutcome", "HandleDkgFailure", "HandlePeerLost",
                      "HandleNodeLeft", "ProposeOffline"} -> 10
      [] cmd.cmd \in {"HandleDkgTimeout", "HandleNewNodeOnline",
                      "EnqueueDataForReplication"} -> 9
      [] cmd.cmd \in {"ScheduleDkgTimeout", "StartConnectivityTest",
                      "TestConnectivity"} -> 8
      [] cmd.cmd \in {"HandleMsg", "SendMsg", "SendMsgDeliveryGroup"}
            -> cmd.wire_msg.priority
      [] cmd.cmd = "SignOutgoingSystemMsg" -> cmd.msg.priority
      [] cmd.cmd = "CleanupPeerLinks" -> 10

\* Cmd::priority
priority(cmd) ==
    CASE cmd.cmd \in {"HandleAgreement", "HandleNewEldersAgreement",
                      "HandleDkgOutcome", "HandleDkgFailure", "HandlePeerLost",
                      "HandleNodeLeft", "ProposeOffline"} -> 10
      [] cmd.cmd \in {"HandleDkgTimeout", "HandleNewNodeOnline",
                      "EnqueueDataForReplication"} -> 9
      [] cmd.cmd \in {"ScheduleDkgTimeout", "StartConnectivityTest",
                      "TestConnectivity"} -> 8
      [] cmd.cmd \in {"HandleMsg", "SendMsg", "SendMsgDeliveryGroup"}
            -> cmd.wire_msg.priority
      [] cmd.cmd = "SignOutgoingSystemMsg" -> cmd.msg.priority
      [] cmd.cmd = "CleanupPeerLinks" -> -10

\* CmdJob::new: the priority of a job is that of its command when the job
\* is made
CmdJob(id, cmd, created_at) ==
    [id |-> id, cmd |-> cmd, priority |-> priority(cmd), created_at |-> created_at]

\* the commands handed to the scheduler
SchedCmds ==
    {[cmd |-> c] : c \in {"HandleAgreement", "HandleNewEldersAgreement",
                          "HandleDkgOutcome", "HandleDkgFailure", "HandlePeerLost",
                          "HandleNodeLeft", "ProposeOffline", "HandleDkgTimeout",
                          "HandleNewNodeOnline", "EnqueueDataForReplication",
                          "ScheduleDkgTimeout", "StartConnectivityTest",
                          "TestConnectivity", "CleanupPeerLinks"}}
    \cup {[cmd |-> c, wire_msg |-> [priority |-> p]] :
            c \in {"HandleMsg", "SendMsg", "SendMsgDeliveryGroup"},
            p \in WirePriorities}
    \cup {[cmd |-> "SignOutgoingSystemMsg", msg |-> [priority |-> p]] :
            p \in WirePriorities}

\* variant: the scheduler takes the job that was enqueued first
dequeue_fifo(q) == 1

\* variant: of the jobs with the greatest priority the scheduler takes the last enqueued
dequeue_newest_of_max(q) ==
    CHOOSE i \in 1 .. Len(q) :
        /\ \A j \in 1 .. Len(q) : q[j].priority <= q[i].priority
        /\ \A j \in (i + 1) .. Len(q) : q[j].priority < q[i].priority

\* the position of the job the scheduler takes next: the first enqueued of
\* those with the greatest priority
dequeue(q) ==
    CHOOSE i \in 1 .. Len(q) :
        /\ \A j \in 1 .. Len(q) : q[j].priority <= q[i].priority
        /\ \A j \in 1 .. (i - 1) : q[j].priority < q[i].priority

\* the queue without its i-th job
Without(q, i) == SubSeq(q, 1, i - 1) \o SubSeq(q, i + 1, Len(q))

\* every node has its initial knowledge and nothing is in flight
SchedInit ==
    /\ world = InitWorld
    /\ kn = [n \in Nodes |-> InitKnowledge(PrefixOf(n), FALSE)]
    /\ net = {}
    /\ injected = FALSE
    /\ lastCheck = NoCheck
    /\ lastAE = NoAE
    /\ comm = [n \in Nodes |-> members(kn[n])]
    /\ disk = [n \in Nodes |-> kn[n].tree]
    /\ AtRest

\* the variables the scheduler does not touch
offSched == <<world, kn, net, injected, lastCheck, lastAE, comm, disk,
              handlerVars, lastGen, timerVars, callVars, bpVars>>

\* a command is made into a job and enqueued
Push(cmd) ==
    /\ nextId < MaxJobs
    /\ queue' = Append(queue, CmdJob(nextId, cmd, nextId))
    /\ nextId' = nextId + 1
    /\ UNCHANGED <<lastPop, offSched>>

\* a worker takes the next job off the queue
Pop ==
    /\ queue # <<>>
    /\ \E i \in {dequeue(queue)} :
         /\ lastPop' = [valid |-> TRUE, job |-> queue[i], pending |-> queue]
         /\ queue' = Without(queue, i)
    /\ UNCHANGED <<nextId, offSched>>

SchedNext ==
    \/ \E cmd \in SchedCmds : Push(cmd)
    \/ Pop

SchedSpec == SchedInit /\ [][SchedNext]_vars

(***************************************************************************)
(* next_timer_token                                                        *)
(***************************************************************************)
\* the calls of next_timer_token in a run
MaxTokens == 5

\* the width of the counter, scaled down from the 64 bits of AtomicU64
TokenBits == 2

TokenWrap == 2 ^ TokenBits

\* variant: the sum is not stored
fetch_add_not_stored(value, val) ==
    [previous |-> value, stored |-> value]

\* AtomicU64::fetch_add: one atomic read-modify-write that stores the sum,
\* wrapping around, and gives the value of before
fetch_add(value, val) ==
    [previous |-> value, stored |-> (value + val) % TokenWrap]

\* the variables next_timer_token does not touch
offTimer == <<world, kn, net, injected, lastCheck, lastAE, comm, disk,
              handlerVars, lastGen, queue, lastPop, nextId, callVars, bpVars>>

\* a task is about to call next_timer_token
CallTimer(t) ==
    /\ timers[t].pc = "idle"
    /\ Len(tokens) + Cardinality({u \in TimerTasks : timers[u].pc = "call"}) < MaxTokens
    /\ timers' = [timers EXCEPT ![t].pc = "call"]
    /\ UNCHANGED <<NEXT, tokens, offTimer>>

\* next_timer_token: NEXT.fetch_add(1, Ordering::Relaxed)
next_timer_token(t) ==
    /\ timers[t].pc = "call"
    /\ \E rmw \in {fetch_add(NEXT, 1)} :
         /\ NEXT' = rmw.stored
         /\ tokens' = Append(tokens, [task |-> t, token |-> rmw.previous])
         /\ timers' = [timers EXCEPT ![t] = [pc |-> "returned", token |-> rmw.previous]]
    /\ UNCHANGED offTimer

\* the task is done with its token
DropTimer(t) ==
    /\ timers[t].pc = "returned"
    /\ timers' = [timers EXCEPT ![t].pc = "idle"]
    /\ UNCHANGED <<NEXT, tokens, offTimer>>

TimerNext ==
    \/ \E t \in TimerTasks : CallTimer(t)
    \/ \E t \in TimerTasks : next_timer_token(t)
    \/ \E t \in TimerTasks : DropTimer(t)

TimerSpec == SchedInit /\ [][TimerNext]_vars

(***************************************************************************)
(* The backpressure controller                                             *)
(***************************************************************************)
\* the greatest common divisor of two naturals, not both 0
RECURSIVE Gcd(_, _)
Gcd(a, b) == IF b = 0 THEN a ELSE Gcd(b, a % b)

\* f64 values: the fraction n / d in lowest terms (d > 0), or NaN
F(n, d) == [nan |-> FALSE, n |-> n \div Gcd(n, d), d |-> d \div Gcd(n, d)]

NaN == [nan |-> TRUE, n |-> 0, d |-> 1]

\* a <= b on f64: false when either is NaN
Le(a, b) == ~a.nan /\ ~b.nan /\ a.n * b.d <= b.n * a.d

\* f64::min and f64::max: a NaN argument is ignored
f64_min(a, b) == IF a.nan THEN b ELSE IF b.nan THEN a ELSE IF Le(a, b) THEN a ELSE b

f64_max(a, b) == IF a.nan THEN b ELSE IF b.nan THEN a ELSE IF Le(a, b) THEN b ELSE a

\* a * b and a / b on f64, for b > 0
f64_mul(a, b) == IF a.nan \/ b.nan THEN NaN ELSE F(a.n * b.n, a.d * b.d)

f64_div(a, b) == IF a.nan \/ b.nan THEN NaN ELSE F(a.n * b.d, a.d * b.n)

\* load_monitoring::INITIAL_MSGS_PER_S
INITIAL_MSGS_PER_S == 20

SANITY_MAX_PER_S_AND_PEER == F(INITIAL_MSGS_PER_S, 1)

SANITY_MIN_PER_S_AND_PEER == F(1, 1)

\* Some(value)
SomeValue(value) == [some |-> TRUE, value |-> value]

\* variant: only a value that is 5 % worse is a significant change
significant_change_worse_only(change_ratio) ==
    \/ Le(change_ratio, F(95, 100))
    \/ change_ratio = F(0, 1)

\* the closure significant_change: the value is 5 % worse or 10 % better
significant_change(change_ratio) ==
    \/ Le(change_ratio, F(95, 100))
    \/ Le(F(11, 10), change_ratio)
    \/ change_ratio = F(0, 1)

\* variant: the value is not raised to the sanity min
msgs_per_s_and_peer_no_min(msgs_per_s, sessions_count) ==
    f64_max(F(0, 1),
            f64_min(SANITY_MAX_PER_S_AND_PEER,
                    f64_div(f64_mul(F(10, 1), msgs_per_s),
                            f64_max(F(1, 1), F(sessions_count, 1)))))

\* the first lines of try_get_new_value: ten times the monitored rate, shared
\* among the callers, not more than the sanity max and not less than the
\* sanity min
msgs_per_s_and_peer(msgs_per_s, sessions_count) ==
    f64_max(SANITY_MIN_PER_S_AND_PEER,
            f64_min(SANITY_MAX_PER_S_AND_PEER,
                    f64_div(f64_mul(F(10, 1), msgs_per_s),
                            f64_max(F(1, 1), F(sessions_count, 1)))))

\* variant: the first call always returns its value
try_get_new_value_first_always(msgs_per_s, prev, sessions_count) ==
    LET decide(candidate) ==
            IF prev.some
            THEN IF significant_change(f64_div(candidate, prev.value))
                 THEN <<TRUE, TRUE>> ELSE <<FALSE, FALSE>>
            ELSE IF significant_change(
                       f64_div(candidate, SANITY_MAX_PER_S_AND_PEER))
                 THEN <<TRUE, TRUE>> ELSE <<TRUE, TRUE>>
    IN Only({Only({[candidate |-> candidate,
                    last_report |-> IF flags[1] THEN SomeValue(candidate) ELSE prev,
                    out |-> IF flags[2] THEN SomeValue(candidate) ELSE NoValue] :
                   flags \in {decide(candidate)}}) :
             candidate \in {msgs_per_s_and_peer(msgs_per_s, sessions_count)}})

\* BackPressure::try_get_new_value: the value recorded in last_report after
\* the call and the value returned
try_get_new_value(msgs_per_s, prev, sessions_count) ==
    LET decide(candidate) ==
            IF prev.some
            THEN IF significant_change(f64_div(candidate, prev.value))
                 THEN <<TRUE, TRUE>> ELSE <<FALSE, FALSE>>
            ELSE IF significant_change(
                       f64_div(candidate, SANITY_MAX_PER_S_AND_PEER))
                 THEN <<TRUE, TRUE>> ELSE <<TRUE, FALSE>>
    IN Only({Only({[candidate |-> candidate,
                    last_report |-> IF flags[1] THEN SomeValue(candidate) ELSE prev,
                    out |-> IF flags[2] THEN SomeValue(candidate) ELSE NoValue] :
                   flags \in {decide(candidate)}}) :
             candidate \in {msgs_per_s_and_peer(msgs_per_s, sessions_count)}})

\* the messages counted in a run of the controller
MaxCounted == 2

\* LoadMonitoring::msgs_per_s: the rates the monitor may report
Loads == {F(k, 10) : k \in {0, 1, 18, 19, 20, 21, 22, 39, 40}} \cup {NaN}

\* the numbers of sessions tolerated_msgs_per_s is called with
Sessions == 0 .. 2

\* the variables the backpressure controller does not touch
offBp == <<world, kn, net, injected, lastCheck, lastAE, comm, disk,
           handlerVars, lastGen, schedVars, callVars>>

\* BackPressure::count_msg
count_msg ==
    /\ msgs_counted < MaxCounted
    /\ msgs_counted' = msgs_counted + 1
    /\ UNCHANGED <<last_report, advertised, lastRate, callers, offBp>>

\* BackPressure::tolerated_msgs_per_s, with the rate the monitor reports at
\* that moment
tolerated_msgs_per_s(sessions_count, msgs_per_s) ==
    /\ \E call \in {try_get_new_value(msgs_per_s, last_report, sessions_count)} :
         /\ last_report' = call.last_report
         /\ advertised' = IF call.out.some THEN call.out ELSE advertised
         /\ lastRate' = [valid |-> TRUE, sessions_count |-> sessions_count,
                         msgs_per_s |-> msgs_per_s, prev |-> last_report,
                         advertised |-> advertised,
                         candidate |-> call.candidate, out |-> call.out]
    /\ UNCHANGED <<msgs_counted, callers, offBp>>

BpNext ==
    \/ count_msg
    \/ \E sessions_count \in Sessions : \E msgs_per_s \in Loads :
          tolerated_msgs_per_s(sessions_count, msgs_per_s)

BpSpec == SchedInit /\ [][BpNext]_vars

(***************************************************************************)
(* Concurrent callers of tolerated_msgs_per_s                              *)
(***************************************************************************)
\* a caller has taken the monitored rate, worked out its value and read
\* last_report under the read lock, which it gives back at once; what it will
\* store and return is decided by what it read
ReadReport(c, sessions_count, msgs_per_s) ==
    /\ callers[c].pc = "idle"
    /\ \E call \in {try_get_new_value(msgs_per_s, last_report, sessions_count)} :
         callers' = [callers EXCEPT ![c] =
                        [pc |-> "write", candidate |-> call.candidate,
                         record_changes |-> IF last_report.some THEN call.out.some
                                            ELSE TRUE,
                         prev |-> last_report, out |-> call.out,
                         with |-> {d \in Callers \ {c} :
                                      callers[d].pc \in {"write", "return"}}]]
    /\ UNCHANGED <<last_report, msgs_counted, advertised, lastRate, offBp>>

\* the caller takes the write lock and stores its value, if it is to be stored
WriteReport(c) ==
    /\ callers[c].pc = "write"
    /\ last_report' = IF callers[c].record_changes
                      THEN SomeValue(callers[c].candidate)
                      ELSE last_report
    /\ callers' = [callers EXCEPT ![c].pc = "return"]
    /\ UNCHANGED <<msgs_counted, advertised, lastRate, offBp>>

\* the caller returns its value, if it is worth reporting
ReturnReport(c) ==
    /\ callers[c].pc = "return"
    /\ advertised' = IF callers[c].out.some THEN callers[c].out ELSE advertised
    /\ callers' = [callers EXCEPT ![c].pc = "done"]
    /\ UNCHANGED <<last_report, msgs_counted, lastRate, offBp>>

BpRaceNext ==
    \/ \E c \in Callers : \E sessions_count \in Sessions : \E msgs_per_s \in Loads :
          ReadReport(c, sessions_count, msgs_per_s)
    \/ \E c \in Callers : WriteReport(c)
    \/ \E c \in Callers : ReturnReport(c)

BpRaceSpec == SchedInit /\ [][BpRaceNext]_vars

(***************************************************************************)
(* Type invariant                                                          *)
(***************************************************************************)
TypeOK ==
    /\ Len(world) \in 3 .. MaxKey
    /\ \A n \in Nodes :
        /\ kn[n].prefix = PrefixOf(n)
        /\ section_key(kn[n]) \in WorldKeys
        /\ Range(section_chain(kn[n])) \subseteq kn[n].dag
    /\ Cardinality(net) <= 1

(***************************************************************************)
(* Properties of check_for_entropy                                         *)
(***************************************************************************)
\* the last inbound message went through check_for_entropy
Checked == lastCheck.valid /\ lastCheck.checked

CheckedDst == lastCheck.wire_msg.dst

CheckedInPrefix == matches(lastCheck.nk.prefix, CheckedDst.name)

\* the prefixes of the tree of the last check that match the dst name
MatchingPrefixes ==
    {p \in Prefixes : lastCheck.nk.tree[p] # NoSap /\ matches(p, CheckedDst.name)}

IsAe(result, ae) == result.tag = "Some" /\ result.kind.ae = ae

\* C1: a message whose dst name is in our prefix and whose dst key is our
\* current section key yields no AE response, whatever the length of our
\* chain and whatever other sections we know.
C1_UpToDateIsNone ==
    (Checked /\ CheckedInPrefix /\ CheckedDst.section_key = section_key(lastCheck.nk))
        => lastCheck.result = NoEntropy

\* an up to date message checked by a node that has seen a key rotation and
\* knows the sibling section
C1_Witness ==
    /\ Checked /\ CheckedInPrefix
    /\ CheckedDst.section_key = section_key(lastCheck.nk)
    /\ Len(section_chain(lastCheck.nk)) >= 3
    /\ lastCheck.nk.tree[sibling(lastCheck.nk.prefix)] # NoSap
    /\ lastCheck.result = NoEntropy

\* C2: the prefix check precedes the key check: a message whose dst name is
\* outside our prefix never yields None nor Retry, even when its dst key is
\* our current key; the outcome is Redirect or NoMatchingSection.
C2_PrefixBeforeKey ==
    (Checked /\ ~CheckedInPrefix)
        => \/ IsAe(lastCheck.result, "Redirect")
           \/ lastCheck.result = NoMatchingSection

\* a message outside our prefix that carries our current key is redirected
C2_Witness ==
    /\ Checked /\ ~CheckedInPrefix
    /\ CheckedDst.section_key = section_key(lastCheck.nk)
    /\ IsAe(lastCheck.result, "Redirect")

\* C3: a message whose dst name is in our prefix and whose dst key is not our
\* current key (an older key of our chain or a key we do not know) yields
\* Retry with the bounced message, our current signed SAP and a proof chain
\* whose last key is our current section key.
C3_OutdatedIsRetry ==
    (Checked /\ CheckedInPrefix /\ CheckedDst.section_key # section_key(lastCheck.nk))
        => /\ IsAe(lastCheck.result, "Retry")
           /\ lastCheck.result.kind.bounced_msg = serialize(lastCheck.wire_msg)
           /\ lastCheck.result.section_tree_update.signed_sap = signed_sap(lastCheck.nk)
           /\ Last(lastCheck.result.section_tree_update.proof_chain)
                = section_key(lastCheck.nk)

\* the dst key is the parent of our current key (K1 against K2 of the scenario)
C3_Witness ==
    /\ Checked /\ CheckedInPrefix
    /\ CheckedDst.section_key # GenesisKey
    /\ CheckedDst.section_key = world[section_key(lastCheck.nk)].parent
    /\ IsAe(lastCheck.result, "Retry")

\* C4: a message whose dst name is outside our prefix, when our tree holds a
\* SAP whose prefix matches the dst name, yields Redirect with the bounced
\* message, that longest-prefix-match SAP and its proof chain, not our own SAP.
C4_RedirectToMatch ==
    (Checked /\ ~CheckedInPrefix /\ MatchingPrefixes # {})
        => LET best == CHOOSE p \in MatchingPrefixes :
                            \A q \in MatchingPrefixes : Len(q) <= Len(p)
               sap == lastCheck.nk.tree[best]
           IN /\ IsAe(lastCheck.result, "Redirect")
              /\ lastCheck.result.kind.bounced_msg = serialize(lastCheck.wire_msg)
              /\ lastCheck.result.section_tree_update.signed_sap = sap
              /\ lastCheck.result.section_tree_update.proof_chain = ChainTo(sap)
              /\ sap # signed_sap(lastCheck.nk)

\* a node of prefix 0 that knows the sibling redirects a message for prefix 1
C4_Witness ==
    /\ Checked
    /\ lastCheck.nk.prefix = <<0>>
    /\ lastCheck.nk.tree[<<1>>] # NoSap
    /\ matches(<<1>>, CheckedDst.name)
    /\ IsAe(lastCheck.result, "Redirect")

\* the case of C5: our prefix is 0, our tree has no SAP for prefix 1 and the
\* dst name is in prefix 1
C5_Case ==
    /\ Checked
    /\ lastCheck.nk.prefix = <<0>>
    /\ lastCheck.nk.tree[<<1>>] = NoSap
    /\ matches(<<1>>, CheckedDst.name)

\* C5 as stated: in that case the check yields NoMatchingSection and no AE
\* response.
C5_Original == C5_Case => lastCheck.result = NoMatchingSection

\* C5 as amended: in that case the check yields a Redirect with the bounced
\* message that carries the closest SAP the tree holds, which is our own; it
\* does not yield NoMatchingSection.
C5_SiblingUnknown ==
    C5_Case =>
        /\ IsAe(lastCheck.result, "Redirect")
        /\ lastCheck.result.section_tree_update.signed_sap = lastCheck.nk.tree[<<0>>]
        /\ lastCheck.result.kind.bounced_msg = serialize(lastCheck.wire_msg)
        /\ lastCheck.result # NoMatchingSection

\* a node of prefix 0 without the sibling's SAP checked a message for prefix 1
C5_Witness == C5_Case /\ IsAe(lastCheck.result, "Redirect")

\* C6: a node that knows only its own section answers a message whose dst
\* name lies in the other prefix with an AE response, not an error, that
\* carries the node's own signed SAP.
C6_RedirectToSelf ==
    (/\ Checked /\ ~CheckedInPrefix
     /\ \A p \in Prefixes \ {lastCheck.nk.prefix} : lastCheck.nk.tree[p] = NoSap)
        => /\ lastCheck.result.tag = "Some"
           /\ lastCheck.result.section_tree_update.signed_sap = signed_sap(lastCheck.nk)

\* the dst of the test: the name of the other prefix and a key nobody knows
C6_Witness ==
    /\ Checked /\ ~CheckedInPrefix
    /\ \A p \in Prefixes \ {lastCheck.nk.prefix} : lastCheck.nk.tree[p] = NoSap
    /\ CheckedDst.section_key = UnknownKey
    /\ lastCheck.result.tag = "Some"
    /\ lastCheck.result.section_tree_update.signed_sap = signed_sap(lastCheck.nk)

(***************************************************************************)
(* Properties of handle_anti_entropy_msg                                   *)
(***************************************************************************)
\* the bounced message of the last AE message handled
Bounced == deserialize(lastAE.kind.bounced_msg)

HandledBounce == lastAE.valid /\ lastAE.kind.ae \in {"Retry", "Redirect"}

\* the dst key of the bounced message is the key of the advertised SAP
LoopGuard == Bounced.dst.section_key = lastAE.section_tree_update.signed_sap

\* the commands of the last AE handling that re-send the bounced message
Resends ==
    {c \in SendMsgs(lastAE.out.cmds) : c.msg = Bounced.msg /\ c.msg_id = Bounced.msg_id}

\* C7: loop guard: when the dst key of the bounced message of a Retry or a
\* Redirect equals the key of the SAP the AE message carries, no SendMsg is
\* emitted and nothing is sent, whether or not knowledge changed.
C7_LoopGuardDrops ==
    (HandledBounce /\ LoopGuard)
        => /\ SendMsgs(lastAE.out.cmds) = {}
           /\ lastAE.sent = {}

\* the guard stopped a bounced node message whose update was accepted
C7_Witness ==
    /\ HandledBounce /\ LoopGuard
    /\ lastAE.out.err = ""
    /\ Bounced.kind = "Node"
    /\ SendMsgs(lastAE.out.cmds) = {}

C9_RedirectToClosestElder ==
    (lastAE.valid /\ lastAE.kind.ae = "Redirect" /\ lastAE.out.resent)
        => \A c \in Resends : \A t \in c.recipients :
             \A e \in elders(lastAE.section_tree_update.signed_sap) :
                cmp_distance(XorNameFromKey(lastAE.section_tree_update.signed_sap), e, t)
                    # "Less"

Decided == {t \in Handlers : tasks[t].pc \in {"effects", "return", "done"}}

\* the handler tasks that have returned
Returned == {t \in Handlers : tasks[t].pc = "done"}

\* the commands the knowledge change of a handler produced
KnowledgeCmds(task) == IF task.updated THEN <<AskForDataCmd>> ELSE <<>>

Removed(task) ==
    /\ task.node \in members(task.starting_context)
    /\ task.node \notin members(task.latest_context)

\* C12: a handler that applied its update (the knowledge changed under the
\* write lock), whose node was a member in its starting context and is none
\* in its latest context, returns RejoinRequired(RemovedFromSection) and no
\* command: nothing is re-sent and no follow-up command of the update is
\* scheduled.
C12_RemovedRejoins ==
    \A t \in Decided :
        (tasks[t].updated /\ Removed(tasks[t]))
            => /\ tasks[t].out.err = "RejoinRequired"
               /\ tasks[t].out.cmds = <<>>
               /\ ~tasks[t].out.resent

\* an Update whose members leave the node out made its handler return the error
C12_Witness ==
    \E t \in Returned :
        /\ tasks[t].updated /\ Removed(tasks[t])
        /\ tasks[t].kind.ae = "Update"
        /\ tasks[t].out.err = "RejoinRequired"
        /\ tasks[t].out.cmds = <<>>

\* the handler tasks that are about to return or have returned
AtReturn == {t \in Handlers : tasks[t].pc \in {"return", "done"}}

\* C13: when a handler is about to return its commands (the re-send of the
\* bounced message among them) and its update changed the knowledge, it has
\* replaced the comm targets of its node by the members of the latest
\* knowledge it read and has written the section tree of that knowledge to
\* disk; when its update changed nothing it has done neither.
C13_EffectsBeforeReturn ==
    \A t \in AtReturn :
        IF tasks[t].updated
        THEN /\ tasks[t].comm_set.called
             /\ tasks[t].comm_set.value = members(tasks[t].latest_context)
             /\ tasks[t].tree_written.called
             /\ tasks[t].tree_written.value = tasks[t].latest_context.tree
        ELSE /\ ~tasks[t].comm_set.called
             /\ ~tasks[t].tree_written.called

\* a Retry taught the node a new key: comm targets and disk were written
\* and the re-send is about to be returned
C13_Witness ==
    \E t \in Handlers :
        /\ tasks[t].pc = "return"
        /\ tasks[t].kind.ae = "Retry"
        /\ tasks[t].updated
        /\ tasks[t].out.resent
        /\ comm[tasks[t].node] = members(tasks[t].latest_context)
        /\ disk[tasks[t].node] = tasks[t].latest_context.tree
        /\ disk[tasks[t].node] # tasks[t].starting_context.tree

\* the update of a handler failed validation, against its starting context
\* or against the knowledge it found under the write lock
FailedValidation(task) ==
    \/ /\ task.pc \notin {"idle", "update"}
       /\ update_knowledge_if_valid(task.starting_context, task.section_tree_update,
                                    members_of(task.kind), task.node).err
    \/ /\ task.pc \notin {"idle", "update", "lock", "unlock"}
       /\ task.locked
       /\ task.written.err

\* C14: a handler whose section tree update fails validation returns the
\* error at once: it has changed neither the knowledge of its node nor the
\* comm targets nor the section tree on disk, and it returns no command, so
\* the bounced message is not re-sent.
C14_UntrustedLeavesState ==
    \A t \in Handlers :
        FailedValidation(tasks[t])
            => /\ tasks[t].pc = "done"
               /\ tasks[t].out.err = "UntrustedUpdate"
               /\ ~tasks[t].touched
               /\ ~tasks[t].comm_set.called
               /\ ~tasks[t].tree_written.called
               /\ tasks[t].out.cmds = <<>>
               /\ ~tasks[t].out.resent

\* a Retry that bounced a node message and carries a proof chain that is no
\* branch of the DAG was dropped, with the node as it was
C14_Witness ==
    \E t \in Returned :
        /\ FailedValidation(tasks[t])
        /\ tasks[t].kind.ae = "Retry"
        /\ deserialize(tasks[t].kind.bounced_msg).kind = "Node"
        /\ ~proof_chain_trusted(tasks[t].starting_context, tasks[t].section_tree_update)
        /\ kn[tasks[t].node] = tasks[t].starting_context
        /\ comm[tasks[t].node] = members(tasks[t].starting_context)
        /\ disk[tasks[t].node] = tasks[t].starting_context.tree

\* the handler tasks that are past the block that yields `updated`
PastUpdate == {t \in Handlers : tasks[t].pc \in {"read", "effects", "return", "done"}}

\* the update of a handler applied to its starting context
FirstApplication(task) ==
    update_knowledge_if_valid(task.starting_context, task.section_tree_update,
                              members_of(task.kind), task.node)

\* the update of a handler applied to the knowledge it found under the lock
SecondApplication(task) ==
    update_knowledge_if_valid(task.found, task.section_tree_update,
                              members_of(task.kind), task.node)

\* C15: a handler takes the write lock if and only if applying the update to
\* its starting context reports a change; under the lock it applies the
\* update again, to the knowledge the node has then; `updated`, which drives
\* set_comm_targets, the write to disk and the removal check, is the result
\* of that second application and not of the first.
C15_SecondApplicationDecides ==
    \A t \in PastUpdate :
        /\ tasks[t].locked
              = (~FirstApplication(tasks[t]).err /\ FirstApplication(tasks[t]).updated)
        /\ tasks[t].locked
              => /\ tasks[t].written.nk = SecondApplication(tasks[t]).nk
                 /\ tasks[t].written.err = SecondApplication(tasks[t]).err
        /\ tasks[t].out.err # "UntrustedUpdate"
              => /\ tasks[t].updated
                      = (tasks[t].locked /\ SecondApplication(tasks[t]).updated)
                 /\ t \in AtReturn
                      => /\ tasks[t].comm_set.called = tasks[t].updated
                         /\ tasks[t].tree_written.called = tasks[t].updated
                 /\ tasks[t].out.err = "RejoinRequired" => tasks[t].updated

\* the first application reported a change, the second none, because another
\* handler had written the same update in between: no effect followed
C15_Witness ==
    \E t \in Returned :
        /\ FirstApplication(tasks[t]).updated
        /\ tasks[t].locked
        /\ ~SecondApplication(tasks[t]).updated
        /\ tasks[t].found # tasks[t].starting_context
        /\ ~tasks[t].updated
        /\ ~tasks[t].comm_set.called
        /\ ~tasks[t].tree_written.called

RECURSIVE ApplyAll(_, _, _)
\* the knowledge nk after the updates are applied to it one after another
ApplyAll(nk, updates, our_name) ==
    IF updates = <<>> THEN nk
    ELSE ApplyAll(update_knowledge_if_valid(nk, Head(updates).section_tree_update,
                                            Head(updates).members, our_name).nk,
                  Tail(updates), our_name)

\* the knowledge of node n after each of the updates written so far
WholeStates(n) ==
    {ApplyAll(applied[n].from, SubSeq(applied[n].updates, 1, i), n) :
        i \in 0 .. Len(applied[n].updates)}

\* the contexts the handler tasks have read from their node
Observed(n) ==
    {tasks[t].starting_context : t \in {h \in Handlers : tasks[h].pc # "idle"}}
    \cup {tasks[t].found : t \in {h \in Handlers : tasks[h].locked}}
    \cup {tasks[t].latest_context : t \in Decided}

AeResponses(cmds) ==
    {cmds[i] : i \in {j \in 1 .. Len(cmds) :
                        /\ cmds[j].cmd \in {"SendMsg", "SendNodeMsgResponse",
                                             "SendClientResponse"}
                        /\ cmds[j].msg.payload = "AntiEntropy"}}

\* the commands of a list that hand the message to its handler
HandlerCmds(cmds) ==
    {cmds[i] : i \in {j \in 1 .. Len(cmds) :
                        cmds[j].cmd \in {"HandleValidSystemMsg",
                                         "HandleValidServiceMsg"}}}

\* the last call of validate_msg was for a system message that deserialises
\* and is trusted
ValidatedSystemMsg ==
    /\ lastCheck.valid
    /\ lastCheck.wire_msg.kind # "Client"
    /\ lastCheck.facts.deserialises
    /\ lastCheck.facts.trusted

\* C17: for a join request, a relocated-join request and an AntiEntropy
\* message apply_ae returns no command, whatever the dst name and the dst
\* section key of the message, and validate_msg returns the command that
\* hands the message to its handler, and nothing else.
C17_JoinAndAeSkipCheck ==
    (ValidatedSystemMsg /\ lastCheck.wire_msg.payload \in SkipsEntropyCheck)
        => /\ lastCheck.ae_cmds = Ok(<<>>)
           /\ lastCheck.out
                = Ok(<<HandleValidMsgCmd("HandleValidSystemMsg", lastCheck.sender,
                                         lastCheck.wire_msg.msg_id,
                                         lastCheck.wire_msg.payload)>>)

\* an elder got an AntiEntropy message whose dst would have made the entropy
\* check answer with an AE response, and handed it to its handler
C17_Witness ==
    /\ ValidatedSystemMsg
    /\ lastCheck.wire_msg.payload = "AntiEntropy"
    /\ is_elder(lastCheck.nk, lastCheck.node)
    /\ check_for_entropy(lastCheck.wire_msg, lastCheck.nk).tag = "Some"
    /\ lastCheck.ae_cmds = Ok(<<>>)
    /\ HandlerCmds(lastCheck.out.cmds) # {}

\* C18: validate_msg never returns both an AE response and the command that
\* hands the message to its handler; when the entropy check is made and finds
\* entropy, an AE response is returned and the message is not handed to its
\* handler; when it is made and finds none, the handler command is returned
\* and no AE response.
C18_AeOrHandler ==
    (lastCheck.valid /\ lastCheck.out.err = "")
        => /\ ~(/\ AeResponses(lastCheck.out.cmds) # {}
                /\ HandlerCmds(lastCheck.out.cmds) # {})
           /\ (lastCheck.checked /\ lastCheck.result.tag = "Some")
                => /\ AeResponses(lastCheck.out.cmds) # {}
                   /\ HandlerCmds(lastCheck.out.cmds) = {}
           /\ (lastCheck.checked /\ lastCheck.result.tag = "None")
                => /\ AeResponses(lastCheck.out.cmds) = {}
                   /\ Cardinality(HandlerCmds(lastCheck.out.cmds)) = 1
                   /\ Len(lastCheck.out.cmds) = 1

\* an elder found entropy in a service message with a data address and
\* answered with an AE response only
C18_Witness ==
    /\ lastCheck.valid
    /\ lastCheck.wire_msg.kind = "Client"
    /\ lastCheck.checked
    /\ lastCheck.result.tag = "Some"
    /\ lastCheck.out.err = ""
    /\ AeResponses(lastCheck.out.cmds) # {}
    /\ HandlerCmds(lastCheck.out.cmds) = {}

\* the commands of the last call of generate_anti_entropy_cmds
GenCmds == lastGen.out.cmds

\* the message of the last call came from a node
FromNode == lastGen.wire_msg.kind \in {"Node", "NodeDataResponse"}

\* the TrackNodeIssue commands of the last call
TrackCmds ==
    {GenCmds[i] : i \in {j \in 1 .. Len(GenCmds) : GenCmds[j].cmd = "TrackNodeIssue"}}

\* C19 as stated: the AE reply goes on the response stream when one is
\* attached and otherwise as a SendMsg to the origin; for a message from a
\* node there is a TrackNodeIssue(NetworkKnowledge) command for the origin
\* and exactly one AE reply.
C19_Original ==
    lastGen.valid
        => /\ lastGen.send_stream.some
                => \E c \in AeResponses(GenCmds) :
                      /\ c.cmd \in {"SendNodeMsgResponse", "SendClientResponse"}
                      /\ c.send_stream = lastGen.send_stream
           /\ ~lastGen.send_stream.some
                => \E c \in AeResponses(GenCmds) :
                      c.cmd = "SendMsg" /\ c.recipients = {lastGen.origin}
           /\ FromNode
                => /\ TrackNodeIssueCmd(lastGen.origin, "NetworkKnowledge") \in TrackCmds
                   /\ Cardinality(AeResponses(GenCmds)) = 1

\* C19 as amended: for a message from a node (Node or NodeDataResponse) the
\* commands are a TrackNodeIssue(NetworkKnowledge) for the origin and one AE
\* reply with the section tree update and the kind, a SendNodeMsgResponse on
\* the stream when one is attached and otherwise a SendMsg to the origin
\* alone; for a message from a client with a stream the only command is a
\* SendClientResponse on that stream with the bytes of the message, and no
\* node issue is tracked; a message from a client without a stream and a
\* ClientDataResponse give no command.
C19_AeReplyRoute ==
    lastGen.valid
        => /\ lastGen.out.err = ""
           /\ FromNode
                => /\ Len(GenCmds) = 2
                   /\ TrackCmds = {TrackNodeIssueCmd(lastGen.origin, "NetworkKnowledge")}
                   /\ Cardinality(AeResponses(GenCmds)) = 1
                   /\ \A c \in AeResponses(GenCmds) :
                        /\ c.msg = AntiEntropyMsg(lastGen.section_tree_update,
                                                  lastGen.kind)
                        /\ c.msg_id = lastGen.wire_msg.msg_id
                        /\ IF lastGen.send_stream.some
                           THEN /\ c.cmd = "SendNodeMsgResponse"
                                /\ c.send_stream = lastGen.send_stream
                                /\ c.recipient = lastGen.origin
                           ELSE /\ c.cmd = "SendMsg"
                                /\ c.recipients = {lastGen.origin}
           /\ (lastGen.wire_msg.kind = "Client" /\ lastGen.send_stream.some)
                => /\ Len(GenCmds) = 1
                   /\ GenCmds[1].cmd = "SendClientResponse"
                   /\ GenCmds[1].send_stream = lastGen.send_stream
                   /\ GenCmds[1].source_client = lastGen.origin
                   /\ GenCmds[1].correlation_id = lastGen.wire_msg.msg_id
                   /\ GenCmds[1].msg.section_tree_update = lastGen.section_tree_update
                   /\ GenCmds[1].msg.bounced_msg = serialize(lastGen.wire_msg)
           /\ (lastGen.wire_msg.kind = "Client" /\ ~lastGen.send_stream.some)
                => GenCmds = <<>>
           /\ lastGen.wire_msg.kind = "ClientDataResponse" => GenCmds = <<>>

\* a message from a node came with a response stream and the AE reply was
\* put on it, next to the TrackNodeIssue command
C19_Witness ==
    /\ lastGen.valid
    /\ FromNode
    /\ lastGen.send_stream.some
    /\ TrackCmds # {}
    /\ \E c \in AeResponses(GenCmds) :
          c.cmd = "SendNodeMsgResponse" /\ c.send_stream = lastGen.send_stream

(***************************************************************************)
(* Properties of the command scheduler                                     *)
(***************************************************************************)
\* C20: the job the scheduler dequeues was pending, and no job pending at
\* that moment has a strictly greater priority.
C20_DequeuesMaxPriority ==
    lastPop.valid
        => /\ \E i \in 1 .. Len(lastPop.pending) : lastPop.pending[i] = lastPop.job
           /\ \A i \in 1 .. Len(lastPop.pending) :
                lastPop.pending[i].priority <= lastPop.job.priority

\* a job was dequeued before a job of lower priority that had been enqueued
\* earlier
C20_Witness ==
    /\ lastPop.valid
    /\ \E i \in 1 .. Len(lastPop.pending) :
          /\ lastPop.pending[i].id < lastPop.job.id
          /\ lastPop.pending[i].priority < lastPop.job.priority

\* the position in the queue, at the last dequeue, of the job that was taken
PoppedAt ==
    CHOOSE i \in 1 .. Len(lastPop.pending) : lastPop.pending[i].id = lastPop.job.id

\* C21: of two pending jobs of the same priority the one enqueued first is
\* dequeued first: no job that was enqueued before the dequeued one, and is
\* still pending, has the priority of the dequeued job.
C21_EqualPriorityFifo ==
    lastPop.valid
        => /\ \A i \in 1 .. (PoppedAt - 1) :
                lastPop.pending[i].priority # lastPop.job.priority
           /\ \A i \in 1 .. Len(lastPop.pending) :
                (/\ lastPop.pending[i].priority = lastPop.job.priority
                 /\ lastPop.pending[i].id # lastPop.job.id)
                    => lastPop.pending[i].id > lastPop.job.id

\* two jobs of the same priority were pending and the older of the two was
\* dequeued, after an earlier dequeue had already taken a job off the queue
\* (fewer jobs are pending than were ever enqueued)
C21_Witness ==
    /\ lastPop.valid
    /\ Len(lastPop.pending) <= lastPop.pending[Len(lastPop.pending)].id
    /\ \E i \in 1 .. Len(lastPop.pending) :
          /\ i > PoppedAt
          /\ lastPop.pending[i].priority = lastPop.job.priority

\* the jobs the scheduler holds or has just dequeued
Jobs ==
    Range(queue) \cup Range(lastPop.pending)
    \cup (IF lastPop.valid THEN {lastPop.job} ELSE {})

\* C22: every job, pending or dequeued, has the priority its command had when
\* the job was made: 10 for HandleAgreement, HandleNewEldersAgreement,
\* HandleDkgOutcome, HandleDkgFailure, HandlePeerLost, HandleNodeLeft and
\* ProposeOffline; 9 for HandleDkgTimeout, HandleNewNodeOnline and
\* EnqueueDataForReplication; 8 for ScheduleDkgTimeout, StartConnectivityTest
\* and TestConnectivity; -10 for CleanupPeerLinks; the priority of the wire
\* message for HandleMsg, SendMsg and SendMsgDeliveryGroup and that of the
\* system message for SignOutgoingSystemMsg.
C22_PriorityTable ==
    \A job \in Jobs :
        /\ job.cmd.cmd \in {"HandleAgreement", "HandleNewEldersAgreement",
                             "HandleDkgOutcome", "HandleDkgFailure",
                             "HandlePeerLost", "HandleNodeLeft", "ProposeOffline"}
              => job.priority = 10
        /\ job.cmd.cmd \in {"HandleDkgTimeout", "HandleNewNodeOnline",
                             "EnqueueDataForReplication"}
              => job.priority = 9
        /\ job.cmd.cmd \in {"ScheduleDkgTimeout", "StartConnectivityTest",
                             "TestConnectivity"}
              => job.priority = 8
        /\ job.cmd.cmd = "CleanupPeerLinks" => job.priority = 0 - 10
        /\ job.cmd.cmd \in {"HandleMsg", "SendMsg", "SendMsgDeliveryGroup"}
              => job.priority = job.cmd.wire_msg.priority
        /\ job.cmd.cmd = "SignOutgoingSystemMsg"
              => job.priority = job.cmd.msg.priority
        /\ job.cmd.cmd \in {"HandleAgreement", "HandleNewEldersAgreement",
                             "HandleDkgOutcome", "HandleDkgFailure",
                             "HandlePeerLost", "HandleNodeLeft", "ProposeOffline",
                             "HandleDkgTimeout", "HandleNewNodeOnline",
                             "EnqueueDataForReplication", "ScheduleDkgTimeout",
                             "StartConnectivityTest", "TestConnectivity",
                             "CleanupPeerLinks", "HandleMsg", "SendMsg",
                             "SendMsgDeliveryGroup", "SignOutgoingSystemMsg"}

\* a SignOutgoingSystemMsg job was dequeued with the priority of its message
\* while a CleanupPeerLinks job enqueued before it stayed pending, and a job
\* for a wire message is pending too
C22_Witness ==
    /\ lastPop.valid
    /\ lastPop.job.cmd.cmd = "SignOutgoingSystemMsg"
    /\ lastPop.job.priority = lastPop.job.cmd.msg.priority
    /\ \E job \in Range(queue) :
          /\ job.cmd.cmd = "CleanupPeerLinks"
          /\ job.id < lastPop.job.id
          /\ job.priority < lastPop.job.priority
    /\ \E job \in Range(queue) : job.cmd.cmd = "SendMsgDeliveryGroup"

(***************************************************************************)
(* Properties of send_msg                                                  *)
(***************************************************************************)
\* the number of positions of a sequence that hold a value
Count(seq, value) == Cardinality({i \in 1 .. Len(seq) : seq[i] = value})

\* C23: send_msg returns Ok with exactly one HandleFailedSendToNode{peer,
\* msg_id} for each recipient whose send returned FailedSend(peer) and no
\* other command, and it hands the message to the comms layer once for each
\* recipient, whatever the sends return.
C23_FailedSendsReported ==
    lastSend.valid
        => /\ lastSend.out.err = ""
           /\ \A peer \in lastSend.recipients :
                /\ Count(lastSend.sent, peer) = 1
                /\ Count(lastSend.out.cmds,
                         HandleFailedSendToNode(peer, lastSend.msg_id))
                     = IF lastSend.results[peer] = FailedSend(peer) THEN 1 ELSE 0
           /\ Len(lastSend.sent) = Cardinality(lastSend.recipients)
           /\ \A i \in 1 .. Len(lastSend.out.cmds) :
                \E peer \in lastSend.recipients :
                    /\ lastSend.results[peer] = FailedSend(peer)
                    /\ lastSend.out.cmds[i]
                         = HandleFailedSendToNode(peer, lastSend.msg_id)

\* a message went to three peers: one send succeeded, one returned
\* FailedSend and one failed with another error, and one command came back
C23_Witness ==
    /\ lastSend.valid
    /\ \E p, q, r \in lastSend.recipients :
          /\ lastSend.results[p] = SendOk
          /\ lastSend.results[q] = FailedSend(q)
          /\ lastSend.results[r] = OtherCommsError
          /\ lastSend.out.cmds = <<HandleFailedSendToNode(q, lastSend.msg_id)>>

(***************************************************************************)
(* Properties of the backpressure controller                               *)
(***************************************************************************)
\* a value lies within [SANITY_MIN, SANITY_MAX]
Sane(value) ==
    /\ Le(SANITY_MIN_PER_S_AND_PEER, value)
    /\ Le(value, SANITY_MAX_PER_S_AND_PEER)

\* C24: every value tolerated_msgs_per_s returns and every value held in
\* last_report lies within [SANITY_MIN, SANITY_MAX], whatever the monitored
\* rate and the number of sessions (0 included) of the calls made so far.
C24_RateWithinSanity ==
    /\ last_report.some => Sane(last_report.value)
    /\ advertised.some => Sane(advertised.value)
    /\ lastRate.valid
         => /\ Sane(lastRate.candidate)
            /\ lastRate.out.some => Sane(lastRate.out.value)

\* with no session at all and a monitored rate of 0 the call returned the
\* sanity min, after messages were counted
C24_Witness ==
    /\ lastRate.valid
    /\ lastRate.sessions_count = 0
    /\ lastRate.msgs_per_s = F(0, 1)
    /\ msgs_counted > 0
    /\ lastRate.out = SomeValue(SANITY_MIN_PER_S_AND_PEER)
    /\ last_report = SomeValue(SANITY_MIN_PER_S_AND_PEER)

\* a candidate lies strictly between 0.95 and 1.10 times a reference value
InBand(candidate, reference) ==
    /\ ~Le(candidate, f64_mul(F(95, 100), reference))
    /\ ~Le(f64_mul(F(11, 10), reference), candidate)

\* C25: when a rate R was advertised before the call, a candidate strictly
\* between 0.95 R and 1.10 R makes tolerated_msgs_per_s return None and
\* leave last_report as it was, and any other candidate is stored in
\* last_report and returned.
C25_Hysteresis ==
    (lastRate.valid /\ lastRate.advertised.some)
        => IF InBand(lastRate.candidate, lastRate.advertised.value)
           THEN /\ lastRate.out = NoValue
                /\ last_report = lastRate.prev
           ELSE /\ lastRate.out = SomeValue(lastRate.candidate)
                /\ last_report = SomeValue(lastRate.candidate)

\* a rate had been advertised and a candidate that differs from it by less
\* than the band was not advertised
C25_Witness ==
    /\ lastRate.valid
    /\ lastRate.advertised.some
    /\ lastRate.candidate # lastRate.advertised.value
    /\ InBand(lastRate.candidate, lastRate.advertised.value)
    /\ lastRate.out = NoValue
    /\ last_report = lastRate.advertised

\* C26: last_report never holds a value that tolerated_msgs_per_s did not
\* return: it is empty, and the reference is the static ceiling, or it is the
\* value last advertised.
C26_ReferenceIsLastAdvertised ==
    last_report.some => last_report = advertised

\* C27: a call that finds no recorded report returns its candidate if and
\* only if the candidate is not strictly between 0.95 and 1.10 times
\* SANITY_MAX, and returns None otherwise.
C27_FirstAgainstCeiling ==
    (lastRate.valid /\ ~lastRate.prev.some)
        => IF InBand(lastRate.candidate, SANITY_MAX_PER_S_AND_PEER)
           THEN lastRate.out = NoValue
           ELSE lastRate.out = SomeValue(lastRate.candidate)

\* the first call had a candidate of at most 0.95 of the ceiling and
\* returned it
C27_Witness ==
    /\ lastRate.valid
    /\ ~lastRate.prev.some
    /\ Le(lastRate.candidate, f64_mul(F(95, 100), SANITY_MAX_PER_S_AND_PEER))
    /\ lastRate.out = SomeValue(lastRate.candidate)
    /\ advertised = lastRate.out

\* the key before the current one in the section chain of a context: the
\* parent of the leaf, or the genesis key when the leaf has none
PreviousKey(context) ==
    IF section_key(context) = GenesisKey THEN GenesisKey
    ELSE world[section_key(context)].parent

\* the recipients of the Update of send_ae_update_to_our_section are the
\* members of our section other than the caller, and nothing is sent when
\* there are none
ToOthersOfOurSection(call) ==
    LET others == members(call.context) \ {call.node}
    IN IF others = {} THEN ~call.out.some /\ call.dsts = {}
       ELSE /\ call.out.some
            /\ call.out.cmd.cmd = "SendMsg"
            /\ call.out.cmd.msg.payload = "AntiEntropy"
            /\ call.out.cmd.msg.kind.ae = "Update"
            /\ call.out.cmd.recipients = others
            /\ {d[1] : d \in call.dsts} = others

C29_SiblingEldersUpdated ==
    (lastUpdate.valid /\ lastUpdate.fn = "send_updates_to_sibling_section")
        => LET prev_context == lastUpdate.prev_context
               sibling_sap == get_signed(lastUpdate.context,
                                         sibling(lastUpdate.context.prefix))
               promoted == IF sibling_sap = NoSap THEN {}
                           ELSE elders(sibling_sap) \ context_elders(prev_context)
           IN IF promoted = {} THEN lastUpdate.out = <<>>
              ELSE /\ Len(lastUpdate.out) = 1
                   /\ lastUpdate.out[1].cmd = "SendMsg"
                   /\ lastUpdate.out[1].recipients = promoted
                   /\ lastUpdate.out[1].msg.kind.ae = "Update"
                   /\ lastUpdate.out[1].msg.section_tree_update
                        = SectionTreeUpdate(signed_sap(prev_context),
                                            <<section_key(prev_context)>>)

\* the orders in which the updates of a sequence can be applied
Orders(updates) ==
    {[i \in 1 .. Len(updates) |-> updates[p[i]]] :
        p \in Permutations(1 .. Len(updates))}

BeforeCall(n, i) == ApplyAll(applied[n].from, SubSeq(applied[n].updates, 1, i - 1), n)

\* what the i-th call of update_knowledge_if_valid on node n returned
CallResult(n, i) ==
    update_knowledge_if_valid(BeforeCall(n, i),
                              applied[n].updates[i].section_tree_update,
                              applied[n].updates[i].members, n)

\* C31: update_knowledge_if_valid returns true exactly when it changed the
\* knowledge, and an error changes nothing; an accepted update whose SAP is
\* not the one held for its prefix returns true; the same update applied
\* again right after it returned true returns false and leaves the section
\* tree, the chain and the members as they are.
C31_AdvancesOnce ==
    \A n \in Nodes :
        /\ kn[n] = ApplyAll(applied[n].from, applied[n].updates, n)
        /\ \A i \in 1 .. Len(applied[n].updates) :
              \E before \in {BeforeCall(n, i)} : \E result \in {CallResult(n, i)} :
              \E sap \in {applied[n].updates[i].section_tree_update.signed_sap} :
                 /\ result.updated = (result.nk # before)
                 /\ result.err => ~result.updated
                 /\ (~result.err /\ before.tree[world[sap].prefix] # sap)
                       => result.updated
                 /\ (/\ i > 1
                     /\ applied[n].updates[i - 1] = applied[n].updates[i]
                     /\ CallResult(n, i - 1).updated)
                       => /\ ~result.err
                          /\ ~result.updated
                          /\ result.nk.tree = before.tree
                          /\ section_chain(result.nk) = section_chain(before)
                          /\ result.nk.members = before.members

\* an update that brought a node the SAP of a rotation of its own section,
\* with the members of that SAP, was applied a second time
C31_Witness ==
    \E n \in Nodes : \E i \in 2 .. Len(applied[n].updates) :
        /\ applied[n].updates[i - 1] = applied[n].updates[i]
        /\ CallResult(n, i - 1).updated
        /\ applied[n].updates[i].members.some
        /\ BeforeCall(n, i).members # BeforeCall(n, i - 1).members
        /\ section_key(BeforeCall(n, i)) # section_key(BeforeCall(n, i - 1))
        /\ kn[n] = BeforeCall(n, i)

C33_RetryProofChain ==
    (Checked /\ CheckedInPrefix /\ CheckedDst.section_key # section_key(lastCheck.nk))
        => \E chain \in {section_chain(lastCheck.nk)} :
           \E proof_chain \in {lastCheck.result.section_tree_update.proof_chain} :
              /\ IsAe(lastCheck.result, "Retry")
              /\ CheckedDst.section_key \notin Range(chain) => proof_chain = chain
              /\ CheckedDst.section_key = GenesisKey => proof_chain = chain
              /\ CheckedDst.section_key \in Range(chain)
                    => /\ proof_chain[1] = CheckedDst.section_key
                       /\ proof_chain = SubSeq(chain, IndexOf(chain, CheckedDst.section_key),
                                               Len(chain))

\* a node whose section rotated its key bounced a message sent with the first
\* key of the section: the proof chain leaves the genesis key out
C33_Witness ==
    /\ Checked /\ CheckedInPrefix
    /\ IsAe(lastCheck.result, "Retry")
    /\ CheckedDst.section_key = InitKey(lastCheck.nk.prefix)
    /\ Len(section_chain(lastCheck.nk)) = 3
    /\ lastCheck.result.section_tree_update.proof_chain
          = <<CheckedDst.section_key, section_key(lastCheck.nk)>>

\* the dst key of the last Core check is a key of our chain before the last
OutdatedDstKey(call) ==
    /\ call.dst_section_pk.some
    /\ call.dst_section_pk.key \in Range(section_chain(call.nk))
    /\ call.dst_section_pk.key # section_key(call.nk)

\* C34: in the routing Core, checking a message from a sender in another
\* prefix that carries an outdated dst section key gives a SendMessage whose
\* payload is an AntiEntropyRedirect with our section authority provider
C34_RedirectToOtherSection ==
    (/\ lastCore.valid
     /\ lastCore.fn = "check_for_entropy"
     /\ ~matches(lastCore.nk.prefix, lastCore.src_location.name)
     /\ OutdatedDstKey(lastCore))
        => /\ lastCore.dest.some
           /\ lastCore.dest.cmd.cmd = "SendMessage"
           /\ lastCore.dest.cmd.wire_msg.msg.node_msg = "AntiEntropyRedirect"
           /\ lastCore.dest.cmd.wire_msg.msg.section_auth = signed_sap(lastCore.nk)

\* C35: next_timer_token is a monotonic counter: until the counter wraps
\* around, every call returns a token distinct from all tokens returned
\* before, also when the calls come from concurrent tasks, and the tokens go
\* up by one in the order of the atomic increments
C35_MonotonicTokens ==
    /\ \A i \in 1 .. Len(tokens) :
          /\ i < Len(tokens)
                => tokens[i + 1].token = (tokens[i].token + 1) % TokenWrap
          /\ i <= TokenWrap
                => /\ tokens[i].token = i - 1
                   /\ \A j \in 1 .. i - 1 : tokens[j].token # tokens[i].token
    /\ \A t \in TimerTasks :
          timers[t].pc = "returned"
             => \E i \in 1 .. Len(tokens) :
                   /\ tokens[i] = [task |-> t, token |-> timers[t].token]
                   /\ \A j \in i + 1 .. Len(tokens) : tokens[j].task # t
    /\ Len(tokens) <= TokenWrap
          => \A t, u \in TimerTasks :
                (t # u /\ timers[t].pc = "returned" /\ timers[u].pc = "returned")
                   => timers[t].token # timers[u].token

\* two tasks hold a token each at the same time, after calls that
\* alternated between them
C35_Witness ==
    /\ \A t \in TimerTasks : timers[t].pc = "returned"
    /\ Len(tokens) = 4
    /\ \A i \in 1 .. 3 : tokens[i].task # tokens[i + 1].task

\* C36: a node that is not an elder never answers a system message with an
\* AE Retry or Redirect: apply_ae returns no command for an adult whatever
\* the dst of the message, and validate_msg, once the message deserialises
\* and its key is trusted, returns the command that hands it to its handler
\* and nothing else; the routing Core's check_for_entropy returns no command
\* for an adult either.
C36_AdultsDoNotCheck ==
    /\ (/\ lastCheck.valid
        /\ lastCheck.wire_msg.kind # "Client"
        /\ ~is_elder(lastCheck.nk, lastCheck.node))
          => /\ lastCheck.ae_cmds = Ok(<<>>)
             /\ lastCheck.out.err = ""
             /\ AeResponses(lastCheck.out.cmds) = {}
             /\ (lastCheck.facts.deserialises /\ lastCheck.facts.trusted)
                   => lastCheck.out
                        = Ok(<<HandleValidMsgCmd("HandleValidSystemMsg",
                                                 lastCheck.sender,
                                                 lastCheck.wire_msg.msg_id,
                                                 lastCheck.wire_msg.payload)>>)
    /\ (/\ lastCore.valid
        /\ lastCore.fn = "check_for_entropy"
        /\ ~is_elder(lastCore.nk, lastCore.node))
          => lastCore.out = NoCmd

\* an adult got a system message that an elder with the same knowledge would
\* have bounced, and handed it to its handler
C36_Witness ==
    /\ ValidatedSystemMsg
    /\ ~is_elder(lastCheck.nk, lastCheck.node)
    /\ lastCheck.wire_msg.payload \notin SkipsEntropyCheck
    /\ check_for_entropy(lastCheck.wire_msg, lastCheck.nk).tag = "Some"
    /\ HandlerCmds(lastCheck.out.cmds) # {}

\* two handlers of one node were given the same update, started from the
\* same context and both took the write lock for it
SameUpdateTwice(t, o) ==
    /\ t # o
    /\ tasks[t].node = tasks[o].node
    /\ tasks[t].section_tree_update = tasks[o].section_tree_update
    /\ members_of(tasks[t].kind) = members_of(tasks[o].kind)
    /\ tasks[t].starting_context = tasks[o].starting_context
    /\ tasks[t].locked /\ tasks[o].locked

\* C37: when two handlers process the same valid update concurrently from
\* the same starting context, both may find that it is a change, but exactly
\* one of them gets updated = true from the application under the write
\* lock and the other gets false, so that the comm targets are replaced, the
\* section tree is written to disk and the removal check is made once for
\* that update.
C37_OneHandlerUpdates ==
    \A t \in PastUpdate : \A o \in PastUpdate :
        SameUpdateTwice(t, o)
            => /\ FirstApplication(tasks[t]).updated
               /\ FirstApplication(tasks[o]).updated
               /\ tasks[t].updated # tasks[o].updated
               /\ ~tasks[t].updated
                     => /\ tasks[t].found # tasks[t].starting_context
                        /\ tasks[t].out.err = ""
                        /\ ~tasks[t].comm_set.called
                        /\ ~tasks[t].tree_written.called
               /\ (tasks[t].updated /\ t \in AtReturn)
                     => /\ tasks[t].comm_set.called
                        /\ tasks[t].tree_written.called

\* both handlers of the same Update have returned: the one that took the
\* lock first wrote the comm targets and the disk, the other did nothing
C37_Witness ==
    \E t \in Returned : \E o \in Returned :
        /\ SameUpdateTwice(t, o)
        /\ tasks[t].updated /\ ~tasks[o].updated
        /\ tasks[t].found = tasks[t].starting_context
        /\ tasks[o].found = tasks[t].written.nk
        /\ tasks[t].comm_set.called /\ tasks[t].tree_written.called
        /\ ~tasks[o].comm_set.called /\ ~tasks[o].tree_written.called

\* C38: handle_anti_entropy_msg is deadlock-free on the lock of the node: a
\* handler never asks for the read lock while it holds the write lock (the
\* write guard is gone before the latest context is read), and under a fair
\* lock every handler that was started completes, whatever the other
\* handlers and readers of the node do.
C38_HandlersComplete ==
    /\ [](\A t \in Handlers :
            tasks[t].pc \in {"read", "effects", "return", "done"}
               => lock[tasks[t].node] # t)
    /\ \A t \in Handlers : (tasks[t].pc # "idle") ~> (tasks[t].pc = "done")

\* a handler is about to ask for the read lock while the other handler holds
\* the write lock of the same node, and a third party could not start
C38_Witness ==
    \E t \in Handlers : \E o \in Handlers \ {t} :
        /\ tasks[t].pc = "read"
        /\ tasks[t].locked
        /\ tasks[o].pc = "unlock"
        /\ tasks[o].node = tasks[t].node
        /\ lock[tasks[t].node] = o
        /\ ~can_read(lock[tasks[t].node])

\* C39: the backpressure report is a check-then-act on last_report that is
\* atomic for concurrent callers: two tolerated_msgs_per_s calls that run at
\* the same time and work out the same value never both return Some for it.
C39_ReportedOnce ==
    \A c \in Callers : \A d \in callers[c].with :
        (/\ callers[c].pc = "done" /\ callers[d].pc = "done"
         /\ callers[c].candidate = callers[d].candidate)
            => ~(callers[c].out.some /\ callers[d].out.some)

\* handle_anti_entropy_msg re-sends the bounced node message of a Retry to
\* the sender of the Retry when the update is valid and changed nothing
C40_NodeResends ==
    (/\ lastAE.valid
     /\ lastAE.kind.ae = "Retry"
     /\ lastAE.out.err = ""
     /\ ~lastAE.out.updated
     /\ Bounced.kind = "Node"
     /\ ~LoopGuard)
        => /\ lastAE.out.resent
           /\ \E c \in Resends : c.recipients = {lastAE.sender}

\* the routing Core's handle_anti_entropy_retry_msg does the same
C40_CoreResends ==
    (/\ lastCore.valid
     /\ lastCore.fn = "handle_anti_entropy_retry_msg"
     /\ lastCore.trusted
     /\ ~lastCore.updated
     /\ lastCore.sent_with # lastCore.section_auth)
        => /\ Len(lastCore.out) = 1
           /\ lastCore.out[1].cmd = "SendMessage"
           /\ lastCore.out[1].msg = lastCore.bounced_msg
           /\ lastCore.out[1].recipients = {<<lastCore.sender, lastCore.sender>>}

\* C40: a Retry whose section tree update is valid but does not change what
\* the node knows (say because a concurrent AE response already brought the
\* same SAP) still has the bounced message re-sent to the sender, unless the
\* loop guard applies: the re-send does not depend on the update having
\* changed anything.
C40_RetryResendsUnchanged == C40_NodeResends /\ C40_CoreResends

====
